---- MODULE Spec2Model ----
(***************************************************************************)
(* PoE2 StashScanner: the scan scheduler of App.tsx, the inventory fetch   *)
(* and the incremental pricing pipeline of Poe2TradeApi, and the modifier  *)
(* catalog of ModMappingService, as one state machine.                     *)
(*                                                                         *)
(* Every async function is a process: a task record whose pc names the     *)
(* await it is suspended at.  The synchronous code between two awaits is   *)
(* one atomic step (JavaScript runs it to completion, and React batches    *)
(* the state updates made in it), followed by the effects of the render.   *)
(* Time is abstracted: a timer that is installed may fire at any moment,   *)
(* a request that is outstanding may return at any moment.                 *)
(***************************************************************************)
EXTENDS Integers, Sequences, FiniteSets, TLC

(* ----------------------------- bounds ---------------------------------- *)
MaxItems == 1       \* listings an account can have at the marketplace
MaxTasks == 2       \* async invocations that may be in flight together
MaxTimers == 1      \* scan-interval timers that may exist together
MaxBatch == 3       \* items handed to one direct pricing batch
MaxCallers == 4     \* overlapping callers of ModMappingService.initialize
MaxRateFetches == 1 \* calls of fetchCurrencyValues waiting at once
MaxAmount == 3      \* the largest amount handed to convertToExalts alone
MaxTextLen == 4     \* the longest text of the enumerated mod texts
MaxCatalog == 2     \* the mappings of a catalog handed to findModId alone
MaxTenths == 25     \* the largest number of a stat, in tenths

(* ------------------------- program constants --------------------------- *)
UndefNum == -1                 \* an optional number that is undefined
UndefStr == "undefined"        \* an optional string that is undefined
DefaultThreshold == 10         \* useState<number>(10), and the || 10 of the threshold input
ConfidenceFound == 75          \* 0.75, in hundredths
ConfidenceFallback == 10       \* 0.1, in hundredths
CountdownFrom == 60            \* seconds shown when a countdown starts

\* The league App starts with, the leagues fetchLeagues lists, and the mark
\* of a RateTable that came from no league.
DefaultLeague == "Rise of the Abyssal"
Leagues == {DefaultLeague, "Standard"}
NoLeague == "none"

Ids == 1..(2 * MaxItems + 1)
Accounts == {"acctA", "acctB"}
\* One timer more than the application is let to start can be set, for the
\* restarts of NextTimers.
TimerSlots == MaxTimers + 1
TimerIds == 1..TimerSlots
Callers == 1..MaxCallers
\* What is typed into the threshold input.
ThresholdInputs == {-1, 0, 15}

\* The listings of an account: ids are globally unique, the first MaxItems
\* belong to acctA and the next MaxItems + 1 to acctB.
ItemsOf(account) ==
    IF account = "acctA" THEN 1..MaxItems ELSE (MaxItems + 1)..(2 * MaxItems + 1)

\* What a search of an account can list: its listings appear one after the
\* other, so the first n of them.
Listings(account) == {{id \in ItemsOf(account) : id <= n} : n \in 0..(2 * MaxItems + 1)}

Min(S) == CHOOSE x \in S : \A y \in S : x <= y

RECURSIVE SetToSeq(_)
SetToSeq(S) == IF S = {} THEN <<>> ELSE <<Min(S)>> \o SetToSeq(S \ {Min(S)})

Range(s) == {s[k] : k \in 1..Len(s)}

RECURSIVE MapSeq(_, _)
MapSeq(F(_), s) == IF s = <<>> THEN <<>> ELSE <<F(Head(s))>> \o MapSeq(F, Tail(s))

(* ------------------------------- items --------------------------------- *)
\* convertApiItemToStashedItem: an item fresh from the details fetch carries
\* no valuation.
convertApiItemToStashedItem(id) ==
    [id |-> id, estimatedValue |-> UndefNum, currency |-> UndefStr,
     convertedValue |-> UndefNum, isQueuedForPricing |-> FALSE]

ItemIds(list) == {list[k].id : k \in 1..Len(list)}

\* The filter of handleFetchItems and performScanCycle.
NeedsPricing(item) ==
    \/ item.estimatedValue = UndefNum
    \/ item.currency = UndefStr
    \/ item.convertedValue = UndefNum

\* The filter at the head of getPricingDataIncremental.
LacksPricingData(item) ==
    \/ item.estimatedValue = UndefNum
    \/ item.currency = UndefStr

(* ------------------------- currency conversion ------------------------- *)
\* A string of the program, character by character: the currency codes and
\* the keys of the RateTable, then the mod texts, then the account names.
SpellKeys ==
    <<"exalted",
      "Exalted Orb",
      "perfect-exalted-orb",
      "chaos",
      "chaos-orb",
      "perfect-chaos",
      "aug",
      "divine",
      "perfect-chaos-orb",
      "orb-of-augmentation",
      "divine-orb",
      "exalt",
      "exalted orb",
      "exalts",
      "transmute",
      "chance",
      "alchemy",
      "ancient",
      "binding",
      "chromatic",
      "fusing",
      "jeweller",
      "regret",
      "scouring",
      "regal",
      "vaal",
      "augmentation",
      "orb-augmentation",
      "orb-of-transmutation",
      "transmutation",
      "orb-transmutation",
      "orb-of-chance",
      "orb-chance",
      "orb-of-alchemy",
      "orb-alchemy",
      "ancient-orb",
      "orb-ancient",
      "orb-of-binding",
      "orb-binding",
      "orb-chaos",
      "chromatic-orb",
      "orb-chromatic",
      "orb-divine",
      "orb-of-fusing",
      "orb-fusing",
      "jeweller-orb",
      "orb-jeweller",
      "orb-of-jewelling",
      "orb-of-regret",
      "orb-regret",
      "orb-of-scouring",
      "orb-scouring",
      "regal-orb",
      "orb-regal",
      "exalted-orb",
      "orb-exalted",
      "vaal-orb",
      "orb-vaal",
      " to ",
      "to",
      "increased",
      "local",
      "(local)",
      "# to maximum Life",
      "#% increased maximum Life",
      "#% increased maximum Life Mana Spirit",
      "Adds # to # [Fire|Fire Damage] (Local)",
      "+",
      " to maximum Life",
      "% increased maximum Life",
      "to maximum Life Mana Spirit",
      " to maximum Life Mana Spirit",
      "% increased maximum Life Mana Spirit",
      "Adds ",
      " [Fire|Fire Damage] (Local)",
      "[Critical|Critical Hit] Chance (LOCAL)",
      "(Local) [[a]|b] 1.5% +2",
      "# to maximum Life Mana Spirit",
      "+(",
      "-",
      ") to maximum Life Mana Spirit",
      "chaos-shard",
      "mirror",
      "mirror-of-kalandra",
      "the-mirror",
      "",
      " ",
      "acctA",
      "acctB",
      "weapon",
      "sword",
      "axe",
      "mace",
      "bow",
      "crossbow",
      "wand",
      "staff",
      "spear",
      "dagger",
      "claw",
      "flail",
      "sceptre",
      "quarterstaff",
      "armour",
      "helmet",
      "chest",
      "gloves",
      "boots",
      "shield",
      "two",
      "body",
      "quiver",
      "focus",
      "buckler",
      "amulet",
      "ring",
      "belt",
      "accuracy",
      "rating",
      "attack",
      "speed",
      "evasion",
      "energy shield",
      "block",
      "adds",
      " (local)",
      "Crossbow",
      "Recurve Bow",
      "Two Hand Sword",
      "Body Armour",
      "Tower Shield",
      "Ring",
      "Jewel",
      "+25 to Accuracy Rating",
      "12% increased Attack Speed",
      "Adds 5 to 15 Fire Damage",
      "+40 to Armour",
      "Cannot be Frozen",
      "+0 to maximum Life",
      "+# to Accuracy Rating (Local)",
      "+# to Accuracy Rating",
      "#% increased Attack Speed (Local)",
      "#% increased Attack Speed",
      "Adds # to # Fire Damage",
      "+# to Armour (Local)",
      "+# to Armour",
      "#% increased maximum Life Mana",
      "% increased maximum Life Mana">>
SpellChars ==
    <<<<"e", "x", "a", "l", "t", "e", "d">>,
      <<"E", "x", "a", "l", "t", "e", "d", " ", "O", "r", "b">>,
      <<"p", "e", "r", "f", "e", "c", "t", "-", "e", "x", "a", "l", "t", "e", "d", "-", "o", "r", "b">>,
      <<"c", "h", "a", "o", "s">>,
      <<"c", "h", "a", "o", "s", "-", "o", "r", "b">>,
      <<"p", "e", "r", "f", "e", "c", "t", "-", "c", "h", "a", "o", "s">>,
      <<"a", "u", "g">>,
      <<"d", "i", "v", "i", "n", "e">>,
      <<"p", "e", "r", "f", "e", "c", "t", "-", "c", "h", "a", "o", "s", "-", "o", "r", "b">>,
      <<"o", "r", "b", "-", "o", "f", "-", "a", "u", "g", "m", "e", "n", "t", "a", "t", "i", "o", "n">>,
      <<"d", "i", "v", "i", "n", "e", "-", "o", "r", "b">>,
      <<"e", "x", "a", "l", "t">>,
      <<"e", "x", "a", "l", "t", "e", "d", " ", "o", "r", "b">>,
      <<"e", "x", "a", "l", "t", "s">>,
      <<"t", "r", "a", "n", "s", "m", "u", "t", "e">>,
      <<"c", "h", "a", "n", "c", "e">>,
      <<"a", "l", "c", "h", "e", "m", "y">>,
      <<"a", "n", "c", "i", "e", "n", "t">>,
      <<"b", "i", "n", "d", "i", "n", "g">>,
      <<"c", "h", "r", "o", "m", "a", "t", "i", "c">>,
      <<"f", "u", "s", "i", "n", "g">>,
      <<"j", "e", "w", "e", "l", "l", "e", "r">>,
      <<"r", "e", "g", "r", "e", "t">>,
      <<"s", "c", "o", "u", "r", "i", "n", "g">>,
      <<"r", "e", "g", "a", "l">>,
      <<"v", "a", "a", "l">>,
      <<"a", "u", "g", "m", "e", "n", "t", "a", "t", "i", "o", "n">>,
      <<"o", "r", "b", "-", "a", "u", "g", "m", "e", "n", "t", "a", "t", "i", "o", "n">>,
      <<"o", "r", "b", "-", "o", "f", "-", "t", "r", "a", "n", "s", "m", "u", "t", "a", "t", "i", "o", "n">>,
      <<"t", "r", "a", "n", "s", "m", "u", "t", "a", "t", "i", "o", "n">>,
      <<"o", "r", "b", "-", "t", "r", "a", "n", "s", "m", "u", "t", "a", "t", "i", "o", "n">>,
      <<"o", "r", "b", "-", "o", "f", "-", "c", "h", "a", "n", "c", "e">>,
      <<"o", "r", "b", "-", "c", "h", "a", "n", "c", "e">>,
      <<"o", "r", "b", "-", "o", "f", "-", "a", "l", "c", "h", "e", "m", "y">>,
      <<"o", "r", "b", "-", "a", "l", "c", "h", "e", "m", "y">>,
      <<"a", "n", "c", "i", "e", "n", "t", "-", "o", "r", "b">>,
      <<"o", "r", "b", "-", "a", "n", "c", "i", "e", "n", "t">>,
      <<"o", "r", "b", "-", "o", "f", "-", "b", "i", "n", "d", "i", "n", "g">>,
      <<"o", "r", "b", "-", "b", "i", "n", "d", "i", "n", "g">>,
      <<"o", "r", "b", "-", "c", "h", "a", "o", "s">>,
      <<"c", "h", "r", "o", "m", "a", "t", "i", "c", "-", "o", "r", "b">>,
      <<"o", "r", "b", "-", "c", "h", "r", "o", "m", "a", "t", "i", "c">>,
      <<"o", "r", "b", "-", "d", "i", "v", "i", "n", "e">>,
      <<"o", "r", "b", "-", "o", "f", "-", "f", "u", "s", "i", "n", "g">>,
      <<"o", "r", "b", "-", "f", "u", "s", "i", "n", "g">>,
      <<"j", "e", "w", "e", "l", "l", "e", "r", "-", "o", "r", "b">>,
      <<"o", "r", "b", "-", "j", "e", "w", "e", "l", "l", "e", "r">>,
      <<"o", "r", "b", "-", "o", "f", "-", "j", "e", "w", "e", "l", "l", "i", "n", "g">>,
      <<"o", "r", "b", "-", "o", "f", "-", "r", "e", "g", "r", "e", "t">>,
      <<"o", "r", "b", "-", "r", "e", "g", "r", "e", "t">>,
      <<"o", "r", "b", "-", "o", "f", "-", "s", "c", "o", "u", "r", "i", "n", "g">>,
      <<"o", "r", "b", "-", "s", "c", "o", "u", "r", "i", "n", "g">>,
      <<"r", "e", "g", "a", "l", "-", "o", "r", "b">>,
      <<"o", "r", "b", "-", "r", "e", "g", "a", "l">>,
      <<"e", "x", "a", "l", "t", "e", "d", "-", "o", "r", "b">>,
      <<"o", "r", "b", "-", "e", "x", "a", "l", "t", "e", "d">>,
      <<"v", "a", "a", "l", "-", "o", "r", "b">>,
      <<"o", "r", "b", "-", "v", "a", "a", "l">>,
      <<" ", "t", "o", " ">>,
      <<"t", "o">>,
      <<"i", "n", "c", "r", "e", "a", "s", "e", "d">>,
      <<"l", "o", "c", "a", "l">>,
      <<"(", "l", "o", "c", "a", "l", ")">>,
      <<"#", " ", "t", "o", " ", "m", "a", "x", "i", "m", "u", "m", " ", "L", "i", "f", "e">>,
      <<"#", "%", " ", "i", "n", "c", "r", "e", "a", "s", "e", "d", " ", "m", "a", "x", "i", "m", "u", "m", " ", "L", "i", "f", "e">>,
      <<"#", "%", " ", "i", "n", "c", "r", "e", "a", "s", "e", "d", " ", "m", "a", "x", "i", "m", "u", "m", " ", "L", "i", "f", "e", " ", "M", "a", "n", "a", " ", "S", "p", "i", "r", "i", "t">>,
      <<"A", "d", "d", "s", " ", "#", " ", "t", "o", " ", "#", " ", "[", "F", "i", "r", "e", "|", "F", "i", "r", "e", " ", "D", "a", "m", "a", "g", "e", "]", " ", "(", "L", "o", "c", "a", "l", ")">>,
      <<"+">>,
      <<" ", "t", "o", " ", "m", "a", "x", "i", "m", "u", "m", " ", "L", "i", "f", "e">>,
      <<"%", " ", "i", "n", "c", "r", "e", "a", "s", "e", "d", " ", "m", "a", "x", "i", "m", "u", "m", " ", "L", "i", "f", "e">>,
      <<"t", "o", " ", "m", "a", "x", "i", "m", "u", "m", " ", "L", "i", "f", "e", " ", "M", "a", "n", "a", " ", "S", "p", "i", "r", "i", "t">>,
      <<" ", "t", "o", " ", "m", "a", "x", "i", "m", "u", "m", " ", "L", "i", "f", "e", " ", "M", "a", "n", "a", " ", "S", "p", "i", "r", "i", "t">>,
      <<"%", " ", "i", "n", "c", "r", "e", "a", "s", "e", "d", " ", "m", "a", "x", "i", "m", "u", "m", " ", "L", "i", "f", "e", " ", "M", "a", "n", "a", " ", "S", "p", "i", "r", "i", "t">>,
      <<"A", "d", "d", "s", " ">>,
      <<" ", "[", "F", "i", "r", "e", "|", "F", "i", "r", "e", " ", "D", "a", "m", "a", "g", "e", "]", " ", "(", "L", "o", "c", "a", "l", ")">>,
      <<"[", "C", "r", "i", "t", "i", "c", "a", "l", "|", "C", "r", "i", "t", "i", "c", "a", "l", " ", "H", "i", "t", "]", " ", "C", "h", "a", "n", "c", "e", " ", "(", "L", "O", "C", "A", "L", ")">>,
      <<"(", "L", "o", "c", "a", "l", ")", " ", "[", "[", "a", "]", "|", "b", "]", " ", "1", ".", "5", "%", " ", "+", "2">>,
      <<"#", " ", "t", "o", " ", "m", "a", "x", "i", "m", "u", "m", " ", "L", "i", "f", "e", " ", "M", "a", "n", "a", " ", "S", "p", "i", "r", "i", "t">>,
      <<"+", "(">>,
      <<"-">>,
      <<")", " ", "t", "o", " ", "m", "a", "x", "i", "m", "u", "m", " ", "L", "i", "f", "e", " ", "M", "a", "n", "a", " ", "S", "p", "i", "r", "i", "t">>,
      <<"c", "h", "a", "o", "s", "-", "s", "h", "a", "r", "d">>,
      <<"m", "i", "r", "r", "o", "r">>,
      <<"m", "i", "r", "r", "o", "r", "-", "o", "f", "-", "k", "a", "l", "a", "n", "d", "r", "a">>,
      <<"t", "h", "e", "-", "m", "i", "r", "r", "o", "r">>,
      <<>>,
      <<" ">>,
      <<"a", "c", "c", "t", "A">>,
      <<"a", "c", "c", "t", "B">>,
      <<"w", "e", "a", "p", "o", "n">>,
      <<"s", "w", "o", "r", "d">>,
      <<"a", "x", "e">>,
      <<"m", "a", "c", "e">>,
      <<"b", "o", "w">>,
      <<"c", "r", "o", "s", "s", "b", "o", "w">>,
      <<"w", "a", "n", "d">>,
      <<"s", "t", "a", "f", "f">>,
      <<"s", "p", "e", "a", "r">>,
      <<"d", "a", "g", "g", "e", "r">>,
      <<"c", "l", "a", "w">>,
      <<"f", "l", "a", "i", "l">>,
      <<"s", "c", "e", "p", "t", "r", "e">>,
      <<"q", "u", "a", "r", "t", "e", "r", "s", "t", "a", "f", "f">>,
      <<"a", "r", "m", "o", "u", "r">>,
      <<"h", "e", "l", "m", "e", "t">>,
      <<"c", "h", "e", "s", "t">>,
      <<"g", "l", "o", "v", "e", "s">>,
      <<"b", "o", "o", "t", "s">>,
      <<"s", "h", "i", "e", "l", "d">>,
      <<"t", "w", "o">>,
      <<"b", "o", "d", "y">>,
      <<"q", "u", "i", "v", "e", "r">>,
      <<"f", "o", "c", "u", "s">>,
      <<"b", "u", "c", "k", "l", "e", "r">>,
      <<"a", "m", "u", "l", "e", "t">>,
      <<"r", "i", "n", "g">>,
      <<"b", "e", "l", "t">>,
      <<"a", "c", "c", "u", "r", "a", "c", "y">>,
      <<"r", "a", "t", "i", "n", "g">>,
      <<"a", "t", "t", "a", "c", "k">>,
      <<"s", "p", "e", "e", "d">>,
      <<"e", "v", "a", "s", "i", "o", "n">>,
      <<"e", "n", "e", "r", "g", "y", " ", "s", "h", "i", "e", "l", "d">>,
      <<"b", "l", "o", "c", "k">>,
      <<"a", "d", "d", "s">>,
      <<" ", "(", "l", "o", "c", "a", "l", ")">>,
      <<"C", "r", "o", "s", "s", "b", "o", "w">>,
      <<"R", "e", "c", "u", "r", "v", "e", " ", "B", "o", "w">>,
      <<"T", "w", "o", " ", "H", "a", "n", "d", " ", "S", "w", "o", "r", "d">>,
      <<"B", "o", "d", "y", " ", "A", "r", "m", "o", "u", "r">>,
      <<"T", "o", "w", "e", "r", " ", "S", "h", "i", "e", "l", "d">>,
      <<"R", "i", "n", "g">>,
      <<"J", "e", "w", "e", "l">>,
      <<"+", "2", "5", " ", "t", "o", " ", "A", "c", "c", "u", "r", "a", "c", "y", " ", "R", "a", "t", "i", "n", "g">>,
      <<"1", "2", "%", " ", "i", "n", "c", "r", "e", "a", "s", "e", "d", " ", "A", "t", "t", "a", "c", "k", " ", "S", "p", "e", "e", "d">>,
      <<"A", "d", "d", "s", " ", "5", " ", "t", "o", " ", "1", "5", " ", "F", "i", "r", "e", " ", "D", "a", "m", "a", "g", "e">>,
      <<"+", "4", "0", " ", "t", "o", " ", "A", "r", "m", "o", "u", "r">>,
      <<"C", "a", "n", "n", "o", "t", " ", "b", "e", " ", "F", "r", "o", "z", "e", "n">>,
      <<"+", "0", " ", "t", "o", " ", "m", "a", "x", "i", "m", "u", "m", " ", "L", "i", "f", "e">>,
      <<"+", "#", " ", "t", "o", " ", "A", "c", "c", "u", "r", "a", "c", "y", " ", "R", "a", "t", "i", "n", "g", " ", "(", "L", "o", "c", "a", "l", ")">>,
      <<"+", "#", " ", "t", "o", " ", "A", "c", "c", "u", "r", "a", "c", "y", " ", "R", "a", "t", "i", "n", "g">>,
      <<"#", "%", " ", "i", "n", "c", "r", "e", "a", "s", "e", "d", " ", "A", "t", "t", "a", "c", "k", " ", "S", "p", "e", "e", "d", " ", "(", "L", "o", "c", "a", "l", ")">>,
      <<"#", "%", " ", "i", "n", "c", "r", "e", "a", "s", "e", "d", " ", "A", "t", "t", "a", "c", "k", " ", "S", "p", "e", "e", "d">>,
      <<"A", "d", "d", "s", " ", "#", " ", "t", "o", " ", "#", " ", "F", "i", "r", "e", " ", "D", "a", "m", "a", "g", "e">>,
      <<"+", "#", " ", "t", "o", " ", "A", "r", "m", "o", "u", "r", " ", "(", "L", "o", "c", "a", "l", ")">>,
      <<"+", "#", " ", "t", "o", " ", "A", "r", "m", "o", "u", "r">>,
      <<"#", "%", " ", "i", "n", "c", "r", "e", "a", "s", "e", "d", " ", "m", "a", "x", "i", "m", "u", "m", " ", "L", "i", "f", "e", " ", "M", "a", "n", "a">>,
      <<"%", " ", "i", "n", "c", "r", "e", "a", "s", "e", "d", " ", "m", "a", "x", "i", "m", "u", "m", " ", "L", "i", "f", "e", " ", "M", "a", "n", "a">>>>
Spell(str) == SpellChars[CHOOSE k \in 1..Len(SpellKeys) : SpellKeys[k] = str]

\* The currency codes a quote can carry.
Codes == {"exalted", "Exalted Orb", "perfect-exalted-orb", "chaos", "chaos-orb", "perfect-chaos",
          "aug", "divine", "mirror"}

UpperCase == <<"A", "B", "C", "D", "E", "F", "G", "H", "I", "J", "K", "L", "M",
               "N", "O", "P", "Q", "R", "S", "T", "U", "V", "W", "X", "Y", "Z">>
LowerCase == <<"a", "b", "c", "d", "e", "f", "g", "h", "i", "j", "k", "l", "m",
               "n", "o", "p", "q", "r", "s", "t", "u", "v", "w", "x", "y", "z">>

\* String.prototype.toLowerCase
toLowerCase(chars) ==
    [k \in DOMAIN chars |->
        IF \E n \in 1..26 : UpperCase[n] = chars[k]
        THEN LowerCase[CHOOSE n \in 1..26 : UpperCase[n] = chars[k]]
        ELSE chars[k]]

\* String.prototype.trim
RECURSIVE trim(_)
trim(chars) ==
    IF chars = <<>> THEN <<>>
    ELSE IF Head(chars) = " " THEN trim(Tail(chars))
    ELSE IF chars[Len(chars)] = " " THEN trim(SubSeq(chars, 1, Len(chars) - 1))
    ELSE chars

\* String.prototype.includes
Includes(chars, part) ==
    \E k \in 0..(Len(chars) - Len(part)) : SubSeq(chars, k + 1, k + Len(part)) = part

\* String.prototype.startsWith
StartsWith(chars, part) ==
    Len(part) <= Len(chars) /\ SubSeq(chars, 1, Len(part)) = part

\* The RateTable of a league that has none: currencyValues starts as {} and
\* is {} again after a rate fetch that fails.
EmptyRates == [k \in {} |-> 0]

\* The rate tables Poe2HelperApi.fetchCurrencyValues can answer with:
\* rate-to-exalt per currency key.
RateTables ==
    {("chaos-orb" :> 2) @@ ("perfect-chaos-orb" :> 5) @@ ("perfect-exalted-orb" :> 4),
     ("chaos-orb" :> 3) @@ ("orb-of-augmentation" :> 1) @@ ("divine-orb" :> 6),
     ("chaos" :> 0) @@ ("chaos-orb" :> 2),
     ("orb-chaos" :> 3) @@ ("chaos-shard" :> 7) @@ ("mirror-of-kalandra" :> 9)
         @@ ("the-mirror" :> 4)}

\* currencyValues[chars], 0 when the table has no such key: the code treats
\* a missing rate and a rate of 0 alike.
RateOf(rates, chars) ==
    LET hit == {k \in DOMAIN rates : Spell(k) = chars}
    IN  IF hit = {} THEN 0 ELSE rates[CHOOSE k \in hit : TRUE]

\* isExaltCurrency: the four equalities of the code are instances of its
\* last test, lower.includes('exalt').
isExaltCurrency(currency) ==
    /\ currency # UndefStr
    /\ LET lower == trim(toLowerCase(Spell(currency)))
       IN  \/ lower \in {Spell("exalted"), Spell("exalt"), Spell("exalted orb"), Spell("exalts")}
           \/ Includes(lower, Spell("exalt"))

commonExpansions(normalized) ==
    CASE normalized = Spell("aug") -> <<"orb-of-augmentation", "augmentation", "orb-augmentation">>
      [] normalized = Spell("transmute") -> <<"orb-of-transmutation", "transmutation", "orb-transmutation">>
      [] normalized = Spell("chance") -> <<"orb-of-chance", "orb-chance">>
      [] normalized = Spell("alchemy") -> <<"orb-of-alchemy", "orb-alchemy">>
      [] normalized = Spell("ancient") -> <<"ancient-orb", "orb-ancient">>
      [] normalized = Spell("binding") -> <<"orb-of-binding", "orb-binding">>
      [] normalized = Spell("chaos") -> <<"chaos-orb", "orb-chaos">>
      [] normalized = Spell("chromatic") -> <<"chromatic-orb", "orb-chromatic">>
      [] normalized = Spell("divine") -> <<"divine-orb", "orb-divine">>
      [] normalized = Spell("fusing") -> <<"orb-of-fusing", "fusing", "orb-fusing">>
      [] normalized = Spell("jeweller") -> <<"jeweller-orb", "orb-jeweller", "orb-of-jewelling">>
      [] normalized = Spell("regret") -> <<"orb-of-regret", "orb-regret">>
      [] normalized = Spell("scouring") -> <<"orb-of-scouring", "orb-scouring">>
      [] normalized = Spell("regal") -> <<"regal-orb", "orb-regal">>
      [] normalized = Spell("exalt") -> <<"exalted-orb", "orb-exalted">>
      [] normalized = Spell("vaal") -> <<"vaal-orb", "orb-vaal">>
      [] OTHER -> <<>>

\* key.includes(normalized) || normalized.includes(key)
PartialMatch(key, normalized) ==
    Includes(Spell(key), normalized) \/ Includes(normalized, Spell(key))

\* The key of the closest match, "" when no key matches.  Among partial
\* matches the ones that start with the code come first, then the shorter.
findClosestCurrencyMatch(rates, currency) ==
    LET normalized == trim(toLowerCase(Spell(currency)))
        hits == SelectSeq(commonExpansions(normalized),
                          LAMBDA e : RateOf(rates, Spell(e)) # 0)
        partial == {k \in DOMAIN rates : PartialMatch(k, normalized)}
        Better(a, b) ==
            \/ StartsWith(Spell(a), normalized) /\ ~StartsWith(Spell(b), normalized)
            \/ /\ StartsWith(Spell(a), normalized) = StartsWith(Spell(b), normalized)
               /\ Len(Spell(a)) < Len(Spell(b))
    IN  IF currency = UndefStr \/ DOMAIN rates = {} THEN ""
        ELSE IF RateOf(rates, normalized) # 0
             THEN CHOOSE k \in DOMAIN rates : Spell(k) = normalized
        ELSE IF hits # <<>> THEN hits[1]
        ELSE IF partial # {}
             THEN CHOOSE k \in partial : \A o \in partial : ~Better(o, k)
        ELSE ""

\* convertToExalts under the RateTable its closure holds.  Of displayText
\* the model keeps which return statement wrote it: "unchanged" (the code is
\* taken for the canonical unit), "noRate" or "converted".
convertToExalts(rates, value, currency) ==
    LET normalized == trim(toLowerCase(Spell(currency)))
        direct == IF RateOf(rates, normalized) # 0 THEN RateOf(rates, normalized)
                  ELSE RateOf(rates, Spell(currency))
        closest == findClosestCurrencyMatch(rates, currency)
        currencyRate == IF direct # 0 THEN direct
                        ELSE IF closest # "" THEN rates[closest] ELSE 0
    IN  IF isExaltCurrency(currency) THEN [value |-> value, displayText |-> "unchanged"]
        ELSE IF currencyRate = 0 THEN [value |-> 0, displayText |-> "noRate"]
        ELSE [value |-> value * currencyRate, displayText |-> "converted"]

(* ----------------------------- mod texts ------------------------------- *)
IsDigit(c) == c \in {"0", "1", "2", "3", "4", "5", "6", "7", "8", "9"}

\* The first index of c in chars, 0 when it has none.
IndexOf(chars, c) ==
    IF \E k \in 1..Len(chars) : chars[k] = c
    THEN Min({k \in 1..Len(chars) : chars[k] = c}) ELSE 0

\* The digits chars begins with.
DigitRun(chars) ==
    IF \E k \in 1..Len(chars) : ~IsDigit(chars[k])
    THEN Min({k \in 1..Len(chars) : ~IsDigit(chars[k])}) - 1 ELSE Len(chars)

\* /\d+/ : the length of the match at the head of chars, which is a digit.
NumberLength_IntegersOnly(chars) == DigitRun(chars)

\* /\d+(?:\.\d+)?/ : the length of the match at the head of chars, which is
\* a digit.
NumberLength(chars) ==
    LET n == DigitRun(chars)
        rest == SubSeq(chars, n + 1, Len(chars))
    IN  IF Len(rest) >= 2 /\ rest[1] = "." /\ IsDigit(rest[2])
        THEN n + 1 + DigitRun(Tail(rest)) ELSE n

\* .replace(/\d+(?:\.\d+)?/g, '#')
RECURSIVE ReplaceNumbers(_)
ReplaceNumbers(chars) ==
    IF chars = <<>> THEN <<>>
    ELSE IF IsDigit(chars[1])
         THEN <<"#">> \o ReplaceNumbers(SubSeq(chars, NumberLength(chars) + 1, Len(chars)))
    ELSE <<chars[1]>> \o ReplaceNumbers(Tail(chars))

\* parts[parts.length - 1] of content.split('|')
RECURSIVE LastPart(_)
LastPart(content) ==
    IF IndexOf(content, "|") = 0 THEN content
    ELSE LastPart(SubSeq(content, IndexOf(content, "|") + 1, Len(content)))

\* .replace(/\[([^\]]*\|[^\]]*)\]/g, ...): a match begins at a "[" and ends
\* at the first "]" after it, with a "|" between the two.
RECURSIVE ReplaceAlternatives(_)
ReplaceAlternatives(chars) ==
    IF chars = <<>> THEN <<>>
    ELSE LET close == IndexOf(chars, "]")
             content == SubSeq(chars, 2, close - 1)
         IN  IF chars[1] = "[" /\ close > 0 /\ IndexOf(content, "|") > 0
             THEN trim(LastPart(content))
                      \o ReplaceAlternatives(SubSeq(chars, close + 1, Len(chars)))
             ELSE <<chars[1]>> \o ReplaceAlternatives(Tail(chars))

\* .replace(/\[([^\]]*)\]/g, '$1')
RECURSIVE RemoveBrackets(_)
RemoveBrackets(chars) ==
    IF chars = <<>> THEN <<>>
    ELSE LET close == IndexOf(chars, "]")
         IN  IF chars[1] = "[" /\ close > 0
             THEN SubSeq(chars, 2, close - 1)
                      \o RemoveBrackets(SubSeq(chars, close + 1, Len(chars)))
             ELSE <<chars[1]>> \o RemoveBrackets(Tail(chars))

\* .replace(/[+\-%]/g, '')
RemoveSpecial(chars) == SelectSeq(chars, LAMBDA c : c \notin {"+", "-", "%"})

\* The replacement with every parenthesis removed, (local) among them.
RECURSIVE ReplaceParentheses_DropsLocal(_)
ReplaceParentheses_DropsLocal(chars) ==
    IF chars = <<>> THEN <<>>
    ELSE LET close == IndexOf(chars, ")")
         IN  IF chars[1] = "(" /\ close > 0
             THEN ReplaceParentheses_DropsLocal(SubSeq(chars, close + 1, Len(chars)))
             ELSE <<chars[1]>> \o ReplaceParentheses_DropsLocal(Tail(chars))

\* .replace(/\([^)]*\)/g, ...): (local) stays, in lower case, and every other
\* parenthesis goes with what it holds.
RECURSIVE ReplaceParentheses(_)
ReplaceParentheses(chars) ==
    IF chars = <<>> THEN <<>>
    ELSE LET close == IndexOf(chars, ")")
         IN  IF chars[1] = "(" /\ close > 0
             THEN (IF toLowerCase(SubSeq(chars, 1, close)) = Spell("(local)")
                   THEN Spell("(local)") ELSE <<>>)
                      \o ReplaceParentheses(SubSeq(chars, close + 1, Len(chars)))
             ELSE <<chars[1]>> \o ReplaceParentheses(Tail(chars))

\* .replace(/\s+/g, ' ')
RECURSIVE NormalizeWhitespace(_)
NormalizeWhitespace(chars) ==
    IF chars = <<>> THEN <<>>
    ELSE IF chars[1] = " " /\ Len(chars) >= 2 /\ chars[2] = " "
         THEN NormalizeWhitespace(Tail(chars))
    ELSE <<chars[1]>> \o NormalizeWhitespace(Tail(chars))

\* ModMappingService.cleanModText
cleanModText(text) ==
    toLowerCase(trim(NormalizeWhitespace(ReplaceParentheses(RemoveSpecial(
        RemoveBrackets(ReplaceAlternatives(ReplaceNumbers(text))))))))

\* text.split(' ')
RECURSIVE Split(_)
Split(chars) ==
    IF IndexOf(chars, " ") = 0 THEN <<chars>>
    ELSE <<SubSeq(chars, 1, IndexOf(chars, " ") - 1)>>
             \o Split(SubSeq(chars, IndexOf(chars, " ") + 1, Len(chars)))

\* ModMappingService.isModTextMatch; matchRatio >= 0.8 in fifths.
isModTextMatch(text1, text2) ==
    LET text1IsFlat == Includes(text1, Spell(" to "))
        text2IsFlat == Includes(text2, Spell(" to "))
        text1IsPercentage == Includes(text1, Spell("increased"))
        text2IsPercentage == Includes(text2, Spell("increased"))
        words1 == SelectSeq(Split(text1), LAMBDA w : Len(w) > 2)
        words2 == SelectSeq(Split(text2), LAMBDA w : Len(w) > 2)
        matchingWords == SelectSeq(words1, LAMBDA w : w \in Range(words2))
        longer == IF Len(words1) >= Len(words2) THEN Len(words1) ELSE Len(words2)
    IN  IF text1IsFlat /\ text2IsPercentage THEN FALSE
        ELSE IF text1IsPercentage /\ text2IsFlat THEN FALSE
        ELSE IF Len(words1) = 0 \/ Len(words2) = 0 THEN FALSE
        ELSE 5 * Len(matchingWords) >= 4 * longer

NoId == "null"

\* findModId with one loop over the catalog, where an entry is taken when it
\* matches exactly or partially.
findModIdIn_OnePass(mappings, modText, modType) ==
    LET cleanInputText == cleanModText(modText)
        either == {k \in 1..Len(mappings) :
                      /\ mappings[k].type = modType
                      /\ \/ cleanModText(Spell(mappings[k].text)) = cleanInputText
                         \/ isModTextMatch(cleanInputText,
                                           cleanModText(Spell(mappings[k].text)))}
    IN  IF either # {} THEN mappings[Min(either)].id ELSE NoId

\* ModMappingService.findModId over an initialized catalog: the id of the
\* first exact match, else of the first partial match, else NoId (null).
findModIdIn(mappings, modText, modType) ==
    LET cleanInputText == cleanModText(modText)
        exact == {k \in 1..Len(mappings) :
                     /\ mappings[k].type = modType
                     /\ cleanModText(Spell(mappings[k].text)) = cleanInputText}
        partial == {k \in 1..Len(mappings) :
                       /\ mappings[k].type = modType
                       /\ isModTextMatch(cleanInputText,
                                         cleanModText(Spell(mappings[k].text)))}
    IN  IF exact # {} THEN mappings[Min(exact)].id
        ELSE IF partial # {} THEN mappings[Min(partial)].id
        ELSE NoId

(* --------------------------- tolerance band ---------------------------- *)
\* The numbers of a mod text are decimals; the model counts them in tenths.
\* Math.floor and Math.ceil of n hundredths.
Floor100(n) == n \div 100
Ceil100(n) == (n + 99) \div 100

\* The band with Math.floor in the place of Math.ceil.
ToleranceBand_Truncated(lowest, highest) ==
    [min |-> IF Floor100(8 * lowest) > 0 THEN Floor100(8 * lowest) ELSE 0,
     max |-> Floor100(12 * highest)]

\* min = Math.max(0, Math.floor(lowest * 0.8)), max = Math.ceil(highest * 1.2),
\* for lowest and highest in tenths.
ToleranceBand(lowest, highest) ==
    [min |-> IF Floor100(8 * lowest) > 0 THEN Floor100(8 * lowest) ELSE 0,
     max |-> Ceil100(12 * highest)]

\* The filters one stat adds in searchSimilarItems: stat.range is what
\* extractModRange found (isRange), stat.value what extractModValue found
\* (UndefNum for null), modId what findModId returned.
StatFilters(stat, modId) ==
    IF stat.isRange
    THEN IF modId # NoId
         THEN <<[id |-> modId, value |-> ToleranceBand(stat.min, stat.max)]>>
         ELSE <<>>
    ELSE IF stat.value # UndefNum /\ stat.value > 0 /\ modId # NoId
         THEN <<[id |-> modId, value |-> ToleranceBand(stat.value, stat.value)]>>
    ELSE <<>>

(* ------------------------- the search query --------------------------- *)
Digits == <<"0", "1", "2", "3", "4", "5", "6", "7", "8", "9">>
Drop(chars, n) == SubSeq(chars, n + 1, Len(chars))

\* The spaces chars begins with.
SpaceRun(chars) ==
    IF \E k \in 1..Len(chars) : chars[k] # " "
    THEN Min({k \in 1..Len(chars) : chars[k] # " "}) - 1 ELSE Len(chars)

\* The number the digits spell.
RECURSIVE IntValue(_)
IntValue(digits) ==
    IF digits = <<>> THEN 0
    ELSE 10 * IntValue(SubSeq(digits, 1, Len(digits) - 1))
             + IndexOf(Digits, digits[Len(digits)]) - 1

\* parseFloat of a match of \d+(?:\.\d+)?, in tenths; the numbers of the
\* model have one decimal at most.
ParseTenths(number) ==
    LET n == DigitRun(number)
    IN  10 * IntValue(SubSeq(number, 1, n))
            + (IF n < Len(number) THEN IntValue(<<number[n + 2]>>) ELSE 0)

\* Poe2TradeApi.extractModValue: the first of its patterns matches at the
\* first digit of the text, so the other two are never tried with success.
\* UndefNum is null.
extractModValue(modText) ==
    LET first == {k \in 1..Len(modText) : IsDigit(modText[k])}
        rest == Drop(modText, Min(first) - 1)
    IN  IF first = {} THEN UndefNum
        ELSE ParseTenths(SubSeq(rest, 1, NumberLength(rest)))

\* /adds\s+(\d+(?:\.\d+)?)\s+to\s+(\d+(?:\.\d+)?)/i tried at the head of
\* chars, which is in lower case.
RangeMatch(chars) ==
    LET a == Drop(chars, 4)
        b == Drop(a, SpaceRun(a))
        len1 == IF b # <<>> /\ IsDigit(b[1]) THEN NumberLength(b) ELSE 0
        c == Drop(b, len1)
        d == Drop(c, SpaceRun(c))
        e == Drop(d, 2)
        f == Drop(e, SpaceRun(e))
        ok == /\ StartsWith(chars, Spell("adds"))
              /\ SpaceRun(a) >= 1 /\ len1 >= 1
              /\ SpaceRun(c) >= 1 /\ StartsWith(d, Spell("to"))
              /\ SpaceRun(e) >= 1 /\ f # <<>> /\ IsDigit(f[1])
    IN  IF ok THEN [found |-> TRUE, min |-> ParseTenths(SubSeq(b, 1, len1)),
                    max |-> ParseTenths(SubSeq(f, 1, NumberLength(f)))]
        ELSE [found |-> FALSE, min |-> UndefNum, max |-> UndefNum]

\* Poe2TradeApi.extractModRange: the leftmost match, found FALSE for null.
extractModRange(modText) ==
    LET lower == toLowerCase(modText)
        hits == {k \in 1..Len(lower) : RangeMatch(Drop(lower, k - 1)).found}
    IN  IF hits = {} THEN [found |-> FALSE, min |-> UndefNum, max |-> UndefNum]
        ELSE RangeMatch(Drop(lower, Min(hits) - 1))

\* Poe2TradeApi.shouldModBeLocal
shouldModBeLocal(modText, itemType) ==
    LET type == toLowerCase(itemType)
        mod == toLowerCase(modText)
        Has(chars, str) == Includes(chars, Spell(str))
    IN  \/ /\ \E w \in {"weapon", "sword", "axe", "mace", "bow", "crossbow", "wand", "staff", "spear", "dagger", "claw", "flail", "sceptre", "quarterstaff"} : Has(type, w)
           /\ \/ Has(mod, "accuracy") /\ Has(mod, "rating") /\ Has(mod, " to ")
              \/ Has(mod, "attack") /\ Has(mod, "speed") /\ Has(mod, "increased")
        \/ /\ \E w \in {"armour", "helmet", "chest", "gloves", "boots", "shield"} : Has(type, w)
           /\ \/ /\ Has(mod, "armour") \/ Has(mod, "evasion") \/ Has(mod, "energy shield")
                 /\ Has(mod, " to ")
              \/ Has(type, "shield") /\ Has(mod, "block") /\ Has(mod, "increased")

\* getItemCategory with the test of 'bow' before the test of 'crossbow'.
NoCategory == "null"
getItemCategory_BowFirst(itemType) ==
    LET type == toLowerCase(itemType)
    IN
        IF Includes(type, Spell("wand")) THEN "weapon.wand"
        ELSE IF Includes(type, Spell("bow")) THEN "weapon.bow"
        ELSE IF Includes(type, Spell("crossbow")) THEN "weapon.crossbow"
        ELSE IF Includes(type, Spell("quarterstaff")) THEN "weapon.warstaff"
        ELSE IF Includes(type, Spell("staff")) THEN "weapon.warstaff"
        ELSE IF Includes(type, Spell("sword")) /\ Includes(type, Spell("two")) THEN "weapon.twosword"
        ELSE IF Includes(type, Spell("sword")) THEN "weapon.onesword"
        ELSE IF Includes(type, Spell("axe")) /\ Includes(type, Spell("two")) THEN "weapon.twoaxe"
        ELSE IF Includes(type, Spell("axe")) THEN "weapon.oneaxe"
        ELSE IF Includes(type, Spell("mace")) /\ Includes(type, Spell("two")) THEN "weapon.twomace"
        ELSE IF Includes(type, Spell("mace")) THEN "weapon.onemace"
        ELSE IF Includes(type, Spell("dagger")) THEN "weapon.dagger"
        ELSE IF Includes(type, Spell("claw")) THEN "weapon.claw"
        ELSE IF Includes(type, Spell("spear")) THEN "weapon.spear"
        ELSE IF Includes(type, Spell("flail")) THEN "weapon.flail"
        ELSE IF Includes(type, Spell("sceptre")) THEN "weapon.sceptre"
        ELSE IF Includes(type, Spell("helmet")) THEN "armour.helmet"
        ELSE IF Includes(type, Spell("chest")) THEN "armour.chest"
        ELSE IF Includes(type, Spell("body")) THEN "armour.chest"
        ELSE IF Includes(type, Spell("gloves")) THEN "armour.gloves"
        ELSE IF Includes(type, Spell("boots")) THEN "armour.boots"
        ELSE IF Includes(type, Spell("shield")) THEN "armour.shield"
        ELSE IF Includes(type, Spell("quiver")) THEN "armour.quiver"
        ELSE IF Includes(type, Spell("focus")) THEN "armour.focus"
        ELSE IF Includes(type, Spell("buckler")) THEN "armour.buckler"
        ELSE IF Includes(type, Spell("amulet")) THEN "accessory.amulet"
        ELSE IF Includes(type, Spell("ring")) THEN "accessory.ring"
        ELSE IF Includes(type, Spell("belt")) THEN "accessory.belt"
        ELSE NoCategory

\* Poe2TradeApi.getItemCategory
getItemCategory(itemType) ==
    LET type == toLowerCase(itemType)
    IN
        IF Includes(type, Spell("wand")) THEN "weapon.wand"
        ELSE IF Includes(type, Spell("crossbow")) THEN "weapon.crossbow"
        ELSE IF Includes(type, Spell("bow")) THEN "weapon.bow"
        ELSE IF Includes(type, Spell("quarterstaff")) THEN "weapon.warstaff"
        ELSE IF Includes(type, Spell("staff")) THEN "weapon.warstaff"
        ELSE IF Includes(type, Spell("sword")) /\ Includes(type, Spell("two")) THEN "weapon.twosword"
        ELSE IF Includes(type, Spell("sword")) THEN "weapon.onesword"
        ELSE IF Includes(type, Spell("axe")) /\ Includes(type, Spell("two")) THEN "weapon.twoaxe"
        ELSE IF Includes(type, Spell("axe")) THEN "weapon.oneaxe"
        ELSE IF Includes(type, Spell("mace")) /\ Includes(type, Spell("two")) THEN "weapon.twomace"
        ELSE IF Includes(type, Spell("mace")) THEN "weapon.onemace"
        ELSE IF Includes(type, Spell("dagger")) THEN "weapon.dagger"
        ELSE IF Includes(type, Spell("claw")) THEN "weapon.claw"
        ELSE IF Includes(type, Spell("spear")) THEN "weapon.spear"
        ELSE IF Includes(type, Spell("flail")) THEN "weapon.flail"
        ELSE IF Includes(type, Spell("sceptre")) THEN "weapon.sceptre"
        ELSE IF Includes(type, Spell("helmet")) THEN "armour.helmet"
        ELSE IF Includes(type, Spell("chest")) THEN "armour.chest"
        ELSE IF Includes(type, Spell("body")) THEN "armour.chest"
        ELSE IF Includes(type, Spell("gloves")) THEN "armour.gloves"
        ELSE IF Includes(type, Spell("boots")) THEN "armour.boots"
        ELSE IF Includes(type, Spell("shield")) THEN "armour.shield"
        ELSE IF Includes(type, Spell("quiver")) THEN "armour.quiver"
        ELSE IF Includes(type, Spell("focus")) THEN "armour.focus"
        ELSE IF Includes(type, Spell("buckler")) THEN "armour.buckler"
        ELSE IF Includes(type, Spell("amulet")) THEN "accessory.amulet"
        ELSE IF Includes(type, Spell("ring")) THEN "accessory.ring"
        ELSE IF Includes(type, Spell("belt")) THEN "accessory.belt"
        ELSE NoCategory

\* The filters of the stats left of the loop of searchSimilarItems, with a
\* stat the matcher does not resolve ending the loop.
RECURSIVE BuildFilters_AbortOnUnresolved(_, _, _)
BuildFilters_AbortOnUnresolved(mappings, itemType, stats) ==
    IF stats = <<>> THEN <<>>
    ELSE LET stat == Head(stats)
             name == Spell(stat.name)
             shouldBeLocal == shouldModBeLocal(name, itemType)
             modTextWithLocal == IF shouldBeLocal THEN name \o Spell(" (local)") ELSE name
             modId == findModIdIn(mappings, modTextWithLocal, stat.type)
             range == extractModRange(name)
         IN  IF modId = NoId THEN <<>>
             ELSE StatFilters([isRange |-> range.found, min |-> range.min,
                               max |-> range.max, value |-> extractModValue(name)], modId)
                      \o BuildFilters_AbortOnUnresolved(mappings, itemType, Tail(stats))

\* The loop of searchSimilarItems over item.stats: the filters it pushes.
RECURSIVE BuildFilters(_, _, _)
BuildFilters(mappings, itemType, stats) ==
    IF stats = <<>> THEN <<>>
    ELSE LET stat == Head(stats)
             name == Spell(stat.name)
             range == extractModRange(name)
             shouldBeLocal == shouldModBeLocal(name, itemType)
             modTextWithLocal == IF shouldBeLocal THEN name \o Spell(" (local)") ELSE name
             modId == findModIdIn(mappings, modTextWithLocal, stat.type)
         IN  StatFilters([isRange |-> range.found, min |-> range.min, max |-> range.max,
                          value |-> extractModValue(name)], modId)
                 \o BuildFilters(mappings, itemType, Tail(stats))

\* searchPayload: the stat filters and the filters of the query, which
\* hold the category when the item has one.
searchPayload(mappings, item) ==
    LET category == getItemCategory(Spell(item.type))
    IN  [stats |-> BuildFilters(mappings, Spell(item.type), item.stats),
         filters |-> IF category # NoCategory THEN <<category>> ELSE <<>>]

(* ------------------------------ sorting -------------------------------- *)
\* The comparator of sortItemsByValue is negative: a goes before b.
SortsBefore(a, b) ==
    LET aHasValue == a.convertedValue # UndefNum
        bHasValue == b.convertedValue # UndefNum
    IN  IF ~aHasValue /\ ~bHasValue THEN FALSE
        ELSE IF ~aHasValue THEN FALSE
        ELSE IF ~bHasValue THEN TRUE
        ELSE IF isExaltCurrency(a.currency) /\ ~isExaltCurrency(b.currency) THEN TRUE
        ELSE IF ~isExaltCurrency(a.currency) /\ isExaltCurrency(b.currency) THEN FALSE
        ELSE b.convertedValue - a.convertedValue < 0

\* x goes in front of the first element it sorts before (a stable insertion).
RECURSIVE InsertSorted(_, _)
InsertSorted(x, s) ==
    IF s = <<>> THEN <<x>>
    ELSE IF SortsBefore(x, Head(s)) THEN <<x>> \o s
    ELSE <<Head(s)>> \o InsertSorted(x, Tail(s))

RECURSIVE sortItemsByValue(_)
sortItemsByValue(list) ==
    IF list = <<>> THEN <<>>
    ELSE InsertSorted(list[Len(list)], sortItemsByValue(SubSeq(list, 1, Len(list) - 1)))

(* ------------------------------- state --------------------------------- *)
VARIABLES
    items,                              \* App: the working item set
    accountName,                        \* App: the account of the last manual scan
    inputText,                          \* AccountInput: the text of the account field
    isLoadingItems,
    isPricingInProgress,
    isPricingCompleteForCurrentScan,
    isFetchCompleteForCurrentScan,
    isLiveSearchEnabled,
    isErrorPopupOpen,
    countdownSeconds,
    liveSearchIntervalRef,              \* 0 is null, else a scan-interval timer id
    countdownIntervalRef,               \* TRUE when it holds a countdown timer
    intervals,                          \* scan-interval timer id -> the account its closure holds, "" when not set
    countdownTimers,                    \* countdown timers that are active
    itemDetailsCache,                   \* Poe2TradeApi: ids of the cached items
    initialized,                        \* ModMappingService.initialized
    modMappings,                        \* ModMappingService.modMappings: "empty" or "loaded"
    tasks,                              \* the async invocations in flight, oldest first
    debugPc,                            \* callers of debugModMapping: "idle", "init", or what findModId came to
    currencyValues,                     \* App: the RateTable
    rateFetches,                        \* the league of each call of fetchCurrencyValues that waits for its answer
    selectedLeague,                     \* App: the league the selector of Settings shows
    ratesLeague,                        \* history: the league whose answer the RateTable holds
    intervalRates,                      \* scan-interval timer id -> the RateTable its closure holds
    threshold,                          \* App: the threshold of the notification, in exalts
    intervalThreshold,                  \* scan-interval timer id -> the threshold its closure holds
    call,                               \* a pure function under check: its name, its arguments, its result
    errorsShown,                        \* history: calls of showError in the last step
    events                              \* history: what the last step did

vars == <<items, accountName, inputText, isLoadingItems, isPricingInProgress,
          isPricingCompleteForCurrentScan, isFetchCompleteForCurrentScan,
          isLiveSearchEnabled, isErrorPopupOpen, countdownSeconds,
          liveSearchIntervalRef, countdownIntervalRef, intervals, countdownTimers,
          itemDetailsCache, initialized, modMappings, tasks, debugPc,
          currencyValues, rateFetches, selectedLeague, ratesLeague, intervalRates,
          threshold, intervalThreshold, call,
          errorsShown, events>>

\* No pure function is under check.
NoCall == [fn |-> "none", in |-> <<>>, out |-> <<>>, done |-> FALSE]

\* The state as one record, so that the code between two awaits is a
\* function from state to state.
State ==
    [items |-> items, accountName |-> accountName, inputText |-> inputText,
     isLoadingItems |-> isLoadingItems, isPricingInProgress |-> isPricingInProgress,
     isPricingCompleteForCurrentScan |-> isPricingCompleteForCurrentScan,
     isFetchCompleteForCurrentScan |-> isFetchCompleteForCurrentScan,
     isLiveSearchEnabled |-> isLiveSearchEnabled, isErrorPopupOpen |-> isErrorPopupOpen,
     countdownSeconds |-> countdownSeconds, liveSearchIntervalRef |-> liveSearchIntervalRef,
     countdownIntervalRef |-> countdownIntervalRef, intervals |-> intervals,
     countdownTimers |-> countdownTimers, itemDetailsCache |-> itemDetailsCache,
     initialized |-> initialized, modMappings |-> modMappings, tasks |-> tasks,
     debugPc |-> debugPc, currencyValues |-> currencyValues,
     rateFetches |-> rateFetches, selectedLeague |-> selectedLeague,
     ratesLeague |-> ratesLeague, intervalRates |-> intervalRates,
     threshold |-> threshold, intervalThreshold |-> intervalThreshold, call |-> call,
     errorsShown |-> 0, events |-> {}]

IdleTask ==
    [kind |-> "none", pc |-> "idle", account |-> "", initial |-> FALSE,
     rates |-> EmptyRates, threshold |-> 0,
     existing |-> <<>>, all |-> <<>>, toFetch |-> <<>>,
     batch |-> <<>>, itemsToPrice |-> <<>>, i |-> 0,
     cbs |-> <<>>, calls |-> 0, waits |-> 0]

\* itemsRef.current follows items after every render.
itemsRef == items

Tasks == DOMAIN tasks
RemoveAt(seq, k) == SubSeq(seq, 1, k - 1) \o SubSeq(seq, k + 1, Len(seq))
ActiveIntervals == {id \in TimerIds : intervals[id] # ""}

\* A marketplace request of the task is outstanding.
RequestOutstanding(t) == tasks[t].pc \in {"fetch_search", "fetch_details", "search", "details"}
\* The inventory fetch of the task is in flight.
FetchInFlight(t) == tasks[t].pc \in {"fetch_search", "fetch_wait", "fetch_details"}
\* The pricing batch of the task is in flight.
PricingInFlight(t) == tasks[t].pc \in {"price_delay", "init", "search", "details", "cooldown"}

(* --------------------- timers and the countdown ------------------------ *)
\* startCountdown
startCountdown(s) ==
    [s EXCEPT !.countdownSeconds = CountdownFrom,
              !.countdownTimers = @ + 1,
              !.countdownIntervalRef = TRUE,
              !.events = @ \cup {"countdownStarted"}]

CountdownDeps(s) ==
    <<s.isLiveSearchEnabled, s.isFetchCompleteForCurrentScan,
      s.isPricingCompleteForCurrentScan, s.isPricingInProgress, s.isLoadingItems>>

\* The countdown effect, were it to start the countdown without clearing
\* the timer countdownIntervalRef holds.
CountdownEffect_KeepsPrevious(before, s) ==
    IF /\ CountdownDeps(before) # CountdownDeps(s)
       /\ s.isLiveSearchEnabled
       /\ s.isFetchCompleteForCurrentScan
       /\ s.isPricingCompleteForCurrentScan
       /\ ~s.isPricingInProgress
       /\ ~s.isLoadingItems
    THEN startCountdown(s)
    ELSE s

\* The countdown effect, run after the render that follows the step from
\* before to s.
CountdownEffect(before, s) ==
    IF /\ CountdownDeps(before) # CountdownDeps(s)
       /\ s.isLiveSearchEnabled
       /\ s.isFetchCompleteForCurrentScan
       /\ s.isPricingCompleteForCurrentScan
       /\ ~s.isPricingInProgress
       /\ ~s.isLoadingItems
    THEN startCountdown(
             IF s.countdownIntervalRef
             THEN [s EXCEPT !.countdownTimers = @ - 1, !.countdownIntervalRef = FALSE]
             ELSE s)
    ELSE s

\* stopLiveSearch
stopLiveSearch(s) ==
    LET a == [s EXCEPT !.isLiveSearchEnabled = FALSE, !.countdownSeconds = 0]
        b == IF a.liveSearchIntervalRef # 0
             THEN [a EXCEPT !.intervals[a.liveSearchIntervalRef] = "",
                            !.intervalRates[a.liveSearchIntervalRef] = EmptyRates,
                            !.intervalThreshold[a.liveSearchIntervalRef] = 0,
                            !.liveSearchIntervalRef = 0]
             ELSE a
    IN  IF b.countdownIntervalRef
        THEN [b EXCEPT !.countdownTimers = @ - 1, !.countdownIntervalRef = FALSE]
        ELSE b

\* stopAllOperations
stopAllOperations(s) ==
    [stopLiveSearch(s) EXCEPT
        !.isLoadingItems = FALSE,
        !.isPricingInProgress = FALSE,
        !.isPricingCompleteForCurrentScan = TRUE,
        !.isFetchCompleteForCurrentScan = TRUE,
        !.items = MapSeq(LAMBDA it : [it EXCEPT !.isQueuedForPricing = FALSE], @)]

\* showError, reached through handleApiError.
handleApiError(s) ==
    [stopAllOperations(s) EXCEPT !.isErrorPopupOpen = TRUE,
                                 !.errorsShown = @ + 1]

\* The tail of startLiveSearch, after the awaited first cycle: setInterval.
InstallInterval(s, account, rates, alertAt) ==
    LET id == Min(TimerIds \ {k \in TimerIds : s.intervals[k] # ""})
    IN  [s EXCEPT !.intervals[id] = account,
                  !.intervalRates[id] = rates,
                  !.intervalThreshold[id] = alertAt,
                  !.liveSearchIntervalRef = id,
                  !.events = @ \cup {"intervalInstalled"}]

(* --------------------------- the catalog ------------------------------- *)
\* ModMappingService.initialize up to its await: TRUE when the caller begins
\* a load of the catalog resource and waits for it.
InitializeLoads(s) == ~s.initialized

\* initialize without its catch: a load that is rejected reaches the caller.
InitializeResume_NoCatch(s, ok) ==
    IF ok THEN [s EXCEPT !.modMappings = "loaded", !.initialized = TRUE]
    ELSE [s EXCEPT !.events = @ \cup {"initializeThrew"}]

\* ModMappingService.initialize after its await: the load resolved (ok) or
\* was rejected.
InitializeResume(s, ok) ==
    IF ok THEN [s EXCEPT !.modMappings = "loaded", !.initialized = TRUE]
    ELSE [s EXCEPT !.modMappings = "empty"]

\* findModId resolves a text the catalog resource describes.
findModId(s) == s.initialized /\ s.modMappings = "loaded"

(* ------------------------ the pricing pipeline ------------------------- *)
None == [kind |-> "none", price |-> 0, currency |-> ""]
Thrown == [kind |-> "throw", price |-> 0, currency |-> ""]
Raw(kind) == [kind |-> kind, price |-> 0, currency |-> ""]
RawQuotes == {[kind |-> "priced", price |-> 5, currency |-> "chaos"]}

\* getItemPrice without its catch: a step that throws reaches the caller.
getItemPrice_NoCatch(raw) ==
    IF raw.kind \in {"search_failed", "details_failed"} THEN Thrown
    ELSE IF raw.kind = "priced"
         THEN [kind |-> "quote", price |-> raw.price,
               currency |-> IF raw.currency = UndefStr THEN "chaos" ELSE raw.currency]
    ELSE None

\* getItemPrice: raw is what its steps came to; a step that throws is caught.
getItemPrice(raw) ==
    IF raw.kind \in {"search_failed", "details_failed"} THEN None
    ELSE IF raw.kind = "priced"
         THEN [kind |-> "quote", price |-> raw.price,
               currency |-> IF raw.currency = UndefStr THEN "chaos" ELSE raw.currency]
    ELSE None

\* The PricingData of the loop body of getPricingDataIncremental.
PricingOf(item, priceResult) ==
    IF priceResult.kind = "quote"
    THEN [itemId |-> item.id, estimatedValue |-> priceResult.price,
          currency |-> priceResult.currency, confidence |-> ConfidenceFound]
    ELSE [itemId |-> item.id, estimatedValue |-> 0,
          currency |-> "chaos", confidence |-> ConfidenceFallback]

\* The callback handlePriceCheck passes, were it to clear the queued flag of
\* every item.
PricedCallback_ClearsEveryQueuedFlag(rates, list, pricing) ==
    sortItemsByValue(
        MapSeq(LAMBDA it :
                   IF it.id = pricing.itemId
                   THEN [it EXCEPT !.estimatedValue = pricing.estimatedValue,
                                   !.currency = pricing.currency,
                                   !.convertedValue =
                                       convertToExalts(rates, pricing.estimatedValue,
                                                       pricing.currency).value,
                                   !.isQueuedForPricing = FALSE]
                   ELSE [it EXCEPT !.isQueuedForPricing = FALSE],
               list))

\* The callback handlePriceCheck passes: the item with this id gets the
\* valuation, converted under the RateTable of the render the callback was
\* made in, and the list is sorted again.
PricedCallback(rates, list, pricing) ==
    sortItemsByValue(
        MapSeq(LAMBDA it :
                   IF it.id = pricing.itemId
                   THEN [it EXCEPT !.estimatedValue = pricing.estimatedValue,
                                   !.currency = pricing.currency,
                                   !.convertedValue =
                                       convertToExalts(rates, pricing.estimatedValue,
                                                       pricing.currency).value,
                                   !.isQueuedForPricing = FALSE]
                   ELSE it,
               list))

\* checkThresholdAlert with the threshold of the render it was made in: TRUE
\* when it plays the alert sound.  A convertedValue of 0 or undefined is
\* falsy.
checkThresholdAlert(alertAt, item) ==
    /\ item.convertedValue # UndefNum /\ item.convertedValue # 0
    /\ item.convertedValue >= alertAt

\* The callback of handlePriceCheck looks the updated item up and checks it
\* against the threshold.
AlertOnUpdated(s, alertAt, itemId) ==
    IF \E k \in 1..Len(s.items) :
           s.items[k].id = itemId /\ checkThresholdAlert(alertAt, s.items[k])
    THEN [s EXCEPT !.events = @ \cup {"alert"}]
    ELSE s

\* onItemPriced(item.id, pricing)
onItemPriced(s, t, pricing) ==
    IF s.tasks[t].kind = "batch"
    THEN [s EXCEPT !.tasks[t].cbs = Append(@, pricing)]
    ELSE AlertOnUpdated([s EXCEPT !.items = PricedCallback(s.tasks[t].rates, @, pricing)],
                        s.tasks[t].threshold, pricing.itemId)

\* getItemPrice(item) up to its first await that suspends: through
\* searchSimilarItems into ModMappingService.initialize, and on to the search
\* request when the catalog is initialized already.
BeginGetItemPrice(s, t) ==
    [s EXCEPT
        !.tasks[t].calls = @ + 1,
        !.tasks[t].pc = IF InitializeLoads(s) THEN "init" ELSE "search"]

\* The finally of performScanCycle, startLiveSearch after the awaited first
\* cycle, and the end of the task.
FinishCycle(s, t) ==
    LET a == [s EXCEPT !.isLoadingItems = FALSE, !.tasks = RemoveAt(@, t)]
    IN  IF s.tasks[t].initial
        THEN InstallInterval(a, s.tasks[t].account, s.tasks[t].rates, s.tasks[t].threshold)
        ELSE a

\* getPricingDataIncremental returned: the finally of handlePriceCheck, and
\* for a scan cycle the finally of performScanCycle.
FinishPricing(s, t) ==
    LET kind == s.tasks[t].kind
        a == [s EXCEPT !.isPricingInProgress = FALSE,
                       !.isPricingCompleteForCurrentScan = TRUE]
    IN  CASE kind = "batch" -> [s EXCEPT !.tasks[t].pc = "done"]
          [] kind = "manual" -> [a EXCEPT !.tasks = RemoveAt(@, t)]
          [] OTHER -> FinishCycle(a, t)

\* The loop body without its wait: the next item follows at once.
AfterGetItemPrice_NoCooldown(s, t, raw) ==
    LET tk == s.tasks[t]
        priceResult == getItemPrice(raw)
        a == onItemPriced(s, t, PricingOf(tk.itemsToPrice[tk.i], priceResult))
        b == [a EXCEPT !.events = @ \cup {raw.kind, priceResult.kind}]
    IN  IF tk.i >= Len(tk.itemsToPrice) THEN FinishPricing(b, t)
        ELSE BeginGetItemPrice([b EXCEPT !.tasks[t].i = @ + 1], t)

\* The loop body with a failed item ending the batch unreported.
AfterGetItemPrice_AbortsOnFailure(s, t, raw) ==
    LET tk == s.tasks[t]
        priceResult == getItemPrice(raw)
        a == onItemPriced(s, t, PricingOf(tk.itemsToPrice[tk.i], priceResult))
        b == [a EXCEPT !.events = @ \cup {raw.kind, priceResult.kind}]
    IN  IF raw.kind \in {"search_failed", "details_failed"}
        THEN FinishPricing([s EXCEPT !.events = @ \cup {raw.kind, priceResult.kind}], t)
        ELSE IF tk.i >= Len(tk.itemsToPrice) THEN FinishPricing(b, t)
             ELSE [b EXCEPT !.tasks[t].pc = "cooldown"]

\* The loop body of getPricingDataIncremental after getItemPrice settled.
AfterGetItemPrice(s, t, raw) ==
    LET tk == s.tasks[t]
        priceResult == getItemPrice(raw)
        a == onItemPriced(s, t, PricingOf(tk.itemsToPrice[tk.i], priceResult))
        b == [a EXCEPT !.events = @ \cup {raw.kind, priceResult.kind}]
        last == tk.i >= Len(tk.itemsToPrice)
    IN  IF priceResult.kind = "throw"
        THEN \* the catch of the loop: no wait, on to the next item
             IF last THEN FinishPricing(b, t)
             ELSE BeginGetItemPrice([b EXCEPT !.tasks[t].i = @ + 1], t)
        ELSE IF last THEN FinishPricing(b, t)
             ELSE [b EXCEPT !.tasks[t].pc = "cooldown"]

\* getPricingDataIncremental without its filter: every item of the batch is
\* priced.
getPricingDataIncremental_NoFilter(s, t, batch) ==
    LET a == [s EXCEPT !.tasks[t].batch = batch,
                       !.tasks[t].itemsToPrice = batch,
                       !.tasks[t].i = 1]
    IN  IF batch = <<>> THEN FinishPricing([a EXCEPT !.tasks[t].i = 0], t)
        ELSE BeginGetItemPrice(a, t)

\* getPricingDataIncremental up to its first await.
getPricingDataIncremental(s, t, batch) ==
    LET itemsToPrice == SelectSeq(batch, LacksPricingData)
        a == [s EXCEPT !.tasks[t].batch = batch,
                       !.tasks[t].itemsToPrice = itemsToPrice,
                       !.tasks[t].i = 1]
    IN  IF itemsToPrice = <<>> THEN FinishPricing([a EXCEPT !.tasks[t].i = 0], t)
        ELSE BeginGetItemPrice(a, t)

\* handlePriceCheck up to its first await.
handlePriceCheck(s, t, itemsToPrice) ==
    IF itemsToPrice = <<>>
    THEN [s EXCEPT !.isPricingCompleteForCurrentScan = TRUE]
    ELSE [s EXCEPT !.isPricingInProgress = TRUE,
                   !.isPricingCompleteForCurrentScan = FALSE,
                   !.tasks[t].existing = <<>>,
                   !.tasks[t].all = <<>>,
                   !.tasks[t].toFetch = <<>>,
                   !.tasks[t].batch = itemsToPrice,
                   !.tasks[t].pc = "price_delay"]

\* handlePriceCheck after its 3000 ms: the items are marked queued, and the
\* pricing batch begins.
handlePriceCheckResume(s, t) ==
    LET queued == ItemIds(s.tasks[t].batch)
        a == [s EXCEPT !.items =
                 sortItemsByValue(
                     MapSeq(LAMBDA it : IF it.id \in queued
                                        THEN [it EXCEPT !.isQueuedForPricing = TRUE]
                                        ELSE it, @))]
    IN  getPricingDataIncremental(a, t, s.tasks[t].batch)

(* ------------------------- the inventory fetch ------------------------- *)
\* The wrapper fetchStashedItems: r is what Poe2TradeApi.fetchStashedItems
\* came to, and the wrapper turns a rejection into the empty list.
fetchStashedItems(r) ==
    IF r.threw THEN [threw |-> FALSE, list |-> <<>>] ELSE r

\* handleFetchItems after the awaited fetch.
handleFetchItemsResume(s, t, r) ==
    IF r.threw
    THEN [handleApiError(s) EXCEPT !.isFetchCompleteForCurrentScan = TRUE,
                                   !.isPricingCompleteForCurrentScan = TRUE,
                                   !.tasks = RemoveAt(@, t)]
    ELSE LET fetchedItems == r.list
             a == [s EXCEPT !.items = sortItemsByValue(fetchedItems),
                            !.isLoadingItems = FALSE,
                            !.isFetchCompleteForCurrentScan = TRUE]
             itemsNeedingPricing == SelectSeq(fetchedItems, NeedsPricing)
         IN  IF itemsNeedingPricing = <<>>
             THEN [a EXCEPT !.isPricingCompleteForCurrentScan = TRUE,
                            !.tasks = RemoveAt(@, t)]
             ELSE handlePriceCheck(a, t, itemsNeedingPricing)

\* performScanCycle after the awaited fetch.
performScanCycleResume(s, t, r) ==
    IF r.threw
    THEN FinishCycle([handleApiError(s) EXCEPT !.isFetchCompleteForCurrentScan = TRUE,
                                               !.isPricingCompleteForCurrentScan = TRUE], t)
    ELSE LET fetchedItems == r.list
             a == [s EXCEPT !.items = sortItemsByValue(fetchedItems),
                            !.isFetchCompleteForCurrentScan = TRUE]
             itemsNeedingPricing == SelectSeq(fetchedItems, NeedsPricing)
         IN  IF itemsNeedingPricing = <<>>
             THEN FinishCycle([a EXCEPT !.isPricingCompleteForCurrentScan = TRUE], t)
             ELSE handlePriceCheck(a, t, itemsNeedingPricing)

\* The caller of fetchStashedItems goes on with what the wrapper returns.
AfterFetch(s, t, apiOutcome) ==
    IF s.tasks[t].kind = "manual"
    THEN handleFetchItemsResume(s, t, fetchStashedItems(apiOutcome))
    ELSE performScanCycleResume(s, t, fetchStashedItems(apiOutcome))

FetchFailed(s, t) ==
    [s EXCEPT !.events = @ \cup {"fetchFailed", s.tasks[t].kind}]

\* Step 2 of Poe2TradeApi.fetchStashedItems: the listed ids that are
\* neither existing nor cached.
itemsToFetch(existingItems, cachedItemIds, result) ==
    SelectSeq(result, LAMBDA id :
        id \notin ItemIds(existingItems) /\ id \notin cachedItemIds)

\* Steps 3 and 4 with the cached items of every listed id, existing or not.
allStashedItems_EveryCachedId(existingItems, cachedItemIds, result) ==
    existingItems
        \o MapSeq(convertApiItemToStashedItem,
                  SelectSeq(result, LAMBDA id : id \in cachedItemIds))

\* Steps 3 and 4: the existing items, then the cached items of the listed
\* ids that are not existing.  The cache holds an item as it was converted.
allStashedItems(existingItems, cachedItemIds, result) ==
    existingItems
        \o MapSeq(convertApiItemToStashedItem,
                  SelectSeq(result, LAMBDA id :
                      id \in cachedItemIds /\ id \notin ItemIds(existingItems)))

\* Poe2TradeApi.fetchStashedItems after searchAccountItems settled: ok with
\* the ids of result, or rejected.
fetchStashedItemsAfterSearch(s, t, ok, result) ==
    LET tk == s.tasks[t]
        toFetch == itemsToFetch(tk.existing, s.itemDetailsCache, result)
        all == allStashedItems(tk.existing, s.itemDetailsCache, result)
    IN  IF ~ok THEN AfterFetch(FetchFailed(s, t), t, [threw |-> TRUE, list |-> <<>>])
        ELSE IF result = <<>> THEN AfterFetch(s, t, [threw |-> FALSE, list |-> <<>>])
        ELSE IF toFetch = <<>>
             THEN AfterFetch(s, t, [threw |-> FALSE, list |-> all])
        ELSE [s EXCEPT !.tasks[t].all = all,
                       !.tasks[t].toFetch = toFetch,
                       !.tasks[t].pc = "fetch_wait"]

\* Poe2TradeApi.fetchStashedItems after fetchItemDetails settled.
fetchStashedItemsAfterDetails(s, t, ok) ==
    LET tk == s.tasks[t]
        newStashedItems == MapSeq(convertApiItemToStashedItem, tk.toFetch)
        a == [s EXCEPT !.itemDetailsCache = @ \cup Range(tk.toFetch),
                       !.events = IF Range(tk.toFetch) \cap s.itemDetailsCache # {}
                                  THEN @ \cup {"cacheRewritten"} ELSE @]
    IN  IF ~ok THEN AfterFetch(FetchFailed(s, t), t, [threw |-> TRUE, list |-> <<>>])
        ELSE AfterFetch(a, t, [threw |-> FALSE, list |-> tk.all \o newStashedItems])

\* performScanCycle up to its first await, as a new task; rates is the
\* RateTable of the render its caller was made in.
performScanCycle(s, currentAccountName, initial, rates, alertAt) ==
    [s EXCEPT !.isLoadingItems = TRUE,
              !.isFetchCompleteForCurrentScan = FALSE,
              !.events = @ \cup {"cycleStarted"},
              !.tasks = Append(@, [IdleTask EXCEPT !.kind = "cycle",
                                                   !.pc = "fetch_search",
                                                   !.account = currentAccountName,
                                                   !.initial = initial,
                                                   !.rates = rates,
                                                   !.threshold = alertAt,
                                                   !.existing = s.items])]

\* handleFetchItems up to its first await, as a new task.
handleFetchItems(s, account) ==
    LET switch == s.accountName # "" /\ s.accountName # account
    IN  [s EXCEPT !.isLoadingItems = TRUE,
                  !.isFetchCompleteForCurrentScan = FALSE,
                  !.itemDetailsCache = IF switch THEN {} ELSE @,
                  !.items = IF switch THEN <<>> ELSE @,
                  !.accountName = account,
                  !.tasks = Append(@, [IdleTask EXCEPT !.kind = "manual",
                                                       !.pc = "fetch_search",
                                                       !.account = account,
                                                       !.rates = s.currencyValues,
                                                       !.threshold = s.threshold,
                                                       !.existing = s.items])]

\* !currentAccountName.trim()
IsBlank(name) == trim(Spell(name)) = <<>>

\* startLiveSearch without its test of the account name.
startLiveSearch_NoGuard(s, currentAccountName) ==
    performScanCycle([s EXCEPT !.isLiveSearchEnabled = TRUE],
                     currentAccountName, TRUE, s.currencyValues, s.threshold)

\* startLiveSearch up to its first await.
startLiveSearch(s, currentAccountName) ==
    IF IsBlank(currentAccountName) THEN s
    ELSE performScanCycle([s EXCEPT !.isLiveSearchEnabled = TRUE],
                          currentAccountName, TRUE, s.currencyValues, s.threshold)

\* handleLiveSearchToggle
handleLiveSearchToggle(s, currentAccountName) ==
    IF s.isLiveSearchEnabled THEN stopLiveSearch(s)
    ELSE IF s.isPricingInProgress \/ s.isLoadingItems THEN s
    ELSE startLiveSearch(s, currentAccountName)

(* ------------------------------ actions -------------------------------- *)
\* The step ends in s: the render follows, and its effects.
Commit(s) ==
    LET r == CountdownEffect(State, s)
    IN  /\ items' = r.items
        /\ accountName' = r.accountName
        /\ inputText' = r.inputText
        /\ isLoadingItems' = r.isLoadingItems
        /\ isPricingInProgress' = r.isPricingInProgress
        /\ isPricingCompleteForCurrentScan' = r.isPricingCompleteForCurrentScan
        /\ isFetchCompleteForCurrentScan' = r.isFetchCompleteForCurrentScan
        /\ isLiveSearchEnabled' = r.isLiveSearchEnabled
        /\ isErrorPopupOpen' = r.isErrorPopupOpen
        /\ countdownSeconds' = r.countdownSeconds
        /\ liveSearchIntervalRef' = r.liveSearchIntervalRef
        /\ countdownIntervalRef' = r.countdownIntervalRef
        /\ intervals' = r.intervals
        /\ countdownTimers' = r.countdownTimers
        /\ itemDetailsCache' = r.itemDetailsCache
        /\ initialized' = r.initialized
        /\ modMappings' = r.modMappings
        /\ tasks' = r.tasks
        /\ debugPc' = r.debugPc
        /\ currencyValues' = r.currencyValues
        /\ rateFetches' = r.rateFetches
        /\ selectedLeague' = r.selectedLeague
        /\ ratesLeague' = r.ratesLeague
        /\ intervalRates' = r.intervalRates
        /\ threshold' = r.threshold
        /\ intervalThreshold' = r.intervalThreshold
        /\ call' = r.call
        /\ errorsShown' = r.errorsShown
        /\ events' = r.events

\* What the disabled attributes of AccountInput let through.
InputDisabled == isLoadingItems \/ isLiveSearchEnabled \/ isPricingInProgress
CanStartAutoScan == ~isPricingInProgress /\ ~isLoadingItems

\* The user edits the account field: one of names, or nothing.
TypeAccountName(names) ==
    \E text \in names \cup {""} :
        /\ ~InputDisabled
        /\ text # inputText
        /\ Commit([State EXCEPT !.inputText = text])

\* The user submits the form: handleSubmit, handleFetchItems.
SubmitScan ==
    /\ ~InputDisabled
    /\ ~IsBlank(inputText)
    /\ Len(tasks) < MaxTasks
    /\ Commit(handleFetchItems(State, inputText))

\* The user flips the Live Scan checkbox; a start is let through while fewer
\* than cap timers are set or about to be set.
ToggleLiveScanWithin(cap) ==
    /\ ~IsBlank(inputText)
    /\ isLiveSearchEnabled \/ CanStartAutoScan
    /\ isLiveSearchEnabled \/
           /\ Len(tasks) < MaxTasks
           /\ Cardinality(ActiveIntervals)
                + Cardinality({t \in Tasks : tasks[t].initial}) < cap
    /\ Commit(handleLiveSearchToggle(State, IF isLiveSearchEnabled THEN "" ELSE inputText))

ToggleLiveScan == ToggleLiveScanWithin(MaxTimers)

\* handleLiveSearchToggle is asked to start the live scan with the name,
\* whatever the Live Scan checkbox would let through.
StartLiveSearchRequest(names) ==
    \E name \in names :
        /\ ~isLiveSearchEnabled
        /\ Len(tasks) < MaxTasks
        /\ Cardinality(ActiveIntervals)
             + Cardinality({t \in Tasks : tasks[t].initial}) < MaxTimers
        /\ Commit(handleLiveSearchToggle(
                      [State EXCEPT !.events = {"startRequested"}
                                        \cup (IF IsBlank(name) THEN {"blankName"} ELSE {})],
                      name))

\* A scan-interval timer fires, while fewer than cap invocations are in
\* flight.
ScanIntervalFiresWithin(cap) ==
    \E id \in ActiveIntervals :
        /\ Len(tasks) < cap
        /\ Commit(performScanCycle(State, intervals[id], FALSE, intervalRates[id],
                                   intervalThreshold[id]))

ScanIntervalFires == ScanIntervalFiresWithin(MaxTasks)

\* A countdown timer fires.
CountdownTick ==
    /\ countdownTimers > 0
    /\ Commit([State EXCEPT !.countdownSeconds = IF @ <= 1 THEN CountdownFrom ELSE @ - 1])

\* searchAccountItems settles.
SearchAccountItemsReturns ==
    \E t \in Tasks :
        /\ tasks[t].pc = "fetch_search"
        /\ \/ Commit(fetchStashedItemsAfterSearch(State, t, FALSE, <<>>))
           \/ \E listed \in Listings(tasks[t].account) :
                  Commit(fetchStashedItemsAfterSearch(State, t, TRUE, SetToSeq(listed)))

\* The one second before the details fetch is over.
FetchWaitElapses ==
    \E t \in Tasks :
        /\ tasks[t].pc = "fetch_wait"
        /\ Commit([State EXCEPT !.tasks[t].pc = "fetch_details"])

\* fetchItemDetails of the inventory fetch settles.
FetchItemDetailsReturns ==
    \E t \in Tasks, ok \in BOOLEAN :
        /\ tasks[t].pc = "fetch_details"
        /\ Commit(fetchStashedItemsAfterDetails(State, t, ok))

\* The 3000 ms at the head of handlePriceCheck are over.
PriceDelayElapses ==
    \E t \in Tasks :
        /\ tasks[t].pc = "price_delay"
        /\ Commit(handlePriceCheckResume(State, t))

\* The load of the catalog resource a pricing call waits for settles.
CatalogLoadSettles ==
    \E t \in Tasks, ok \in BOOLEAN :
        /\ tasks[t].pc = "init"
        /\ Commit([InitializeResume(State, ok) EXCEPT !.tasks[t].pc = "search"])

\* The search request of searchSimilarItems settles.
SearchSimilarReturns ==
    \E t \in Tasks, outcome \in {"search_failed", "search_empty", "found"} :
        /\ tasks[t].pc = "search"
        /\ IF outcome = "found"
           THEN Commit([State EXCEPT !.tasks[t].pc = "details"])
           ELSE Commit(AfterGetItemPrice(State, t, Raw(outcome)))

\* fetchItemDetails of getItemPrice settles.
PriceDetailsReturns ==
    \E t \in Tasks :
        /\ tasks[t].pc = "details"
        /\ \E raw \in RawQuotes \cup {Raw("details_failed"), Raw("details_empty"), Raw("no_price")} :
               Commit(AfterGetItemPrice(State, t, raw))

\* The 3000 ms between two items are over.
CooldownElapses ==
    \E t \in Tasks :
        /\ tasks[t].pc = "cooldown"
        /\ Commit(BeginGetItemPrice([State EXCEPT !.tasks[t].waits = @ + 1,
                                                  !.tasks[t].i = @ + 1,
                                                  !.events = {"nextItemStarted", tasks[t].kind}],
                                    t))

\* Poe2TradeApi.getPricingDataIncremental is called with a batch and a
\* callback that records what it is given, once the batch before is over.
PriceBatch ==
    \E n \in 0..MaxBatch :
        \E valued \in [1..n -> {"none", "amount", "both"}] :
            LET batch == [k \in 1..n |->
                            [convertApiItemToStashedItem(k) EXCEPT
                                !.estimatedValue = IF valued[k] = "none" THEN UndefNum ELSE 5,
                                !.currency = IF valued[k] = "both" THEN "chaos" ELSE UndefStr,
                                !.convertedValue =
                                    IF valued[k] = "both"
                                    THEN convertToExalts(currencyValues, 5, "chaos").value
                                    ELSE UndefNum]]
            IN  /\ \A t \in Tasks : tasks[t].pc = "done"
                /\ Commit(getPricingDataIncremental(
                              [State EXCEPT !.tasks = <<[IdleTask EXCEPT !.kind = "batch"]>>],
                              1, batch))

\* Poe2TradeApi.debugModMapping is called, up to its await of initialize.
DebugModMapping ==
    \E c \in Callers :
        /\ debugPc[c] # "init"
        /\ Commit([State EXCEPT !.debugPc[c] =
                       IF InitializeLoads(State) THEN "init"
                       ELSE IF findModId(State) THEN "found" ELSE "notFound",
                                !.events =
                       IF InitializeLoads(State) THEN {}
                       ELSE IF findModId(State) THEN {"modFound"} ELSE {"modNotFound"}])

\* The load of the catalog resource a caller of debugModMapping waits for
\* settles, and the caller goes on to findModId.
DebugLoadSettles ==
    \E c \in Callers, ok \in BOOLEAN :
        /\ debugPc[c] = "init"
        /\ LET a == InitializeResume(State, ok)
           IN  Commit([a EXCEPT !.debugPc[c] = IF findModId(a) THEN "found" ELSE "notFound",
                                !.events = @ \cup (IF ok THEN {} ELSE {"loadFailed"})
                                             \cup (IF findModId(a) THEN {"modFound"}
                                                   ELSE {"modNotFound"})])

\* handleLeagueChange up to its await: the league selector of Settings is
\* disabled during a live scan only.  The league is formatted (its spaces
\* become %20) and handed to fetchCurrencyValues; the formatting keeps
\* different leagues apart, so the call in flight is recorded by its league.
LeagueChangeWithin(leagues, cap) ==
    \E league \in leagues :
        /\ ~isLiveSearchEnabled
        /\ Len(rateFetches) < cap
        /\ Commit([State EXCEPT !.selectedLeague = league,
                                !.rateFetches = Append(@, league)])

LeagueChange == LeagueChangeWithin({DefaultLeague}, MaxRateFetches)

\* fetchCurrencyValues after its await: any of the calls in flight is
\* answered, with a RateTable of its league, or the request failed and the
\* table is emptied.
FetchCurrencyValuesReturns ==
    \E k \in 1..Len(rateFetches), rates \in RateTables \cup {EmptyRates} :
        Commit([State EXCEPT
                  !.rateFetches = SubSeq(@, 1, k - 1) \o SubSeq(@, k + 1, Len(@)),
                  !.currencyValues = rates,
                  !.ratesLeague = IF rates = EmptyRates THEN NoLeague
                                  ELSE rateFetches[k]])

\* The onChange of the threshold input of Settings, which is disabled while
\* the live scan is on: parseInt(e.target.value) || 10, then
\* handleThresholdChange.
ThresholdChange ==
    \E typed \in ThresholdInputs :
        /\ ~isLiveSearchEnabled
        /\ Commit([State EXCEPT !.threshold = IF typed = 0 THEN DefaultThreshold ELSE typed])

\* convertToExalts is applied to the arguments of the call.
ConvertToExalts ==
    /\ call.fn = "convertToExalts"
    /\ ~call.done
    /\ Commit([State EXCEPT !.call.done = TRUE,
                            !.call.out = convertToExalts(call.in.rates, call.in.value,
                                                         call.in.currency)])

\* A call already answered is made again with other arguments.
CallAgain(inputs) ==
    \E in \in inputs :
        /\ call.done
        /\ Commit([State EXCEPT !.call.in = in, !.call.out = <<>>, !.call.done = FALSE])

\* cleanModText is applied to the text of the call.
CleanModText ==
    /\ call.fn = "cleanModText"
    /\ ~call.done
    /\ Commit([State EXCEPT !.call.done = TRUE, !.call.out = cleanModText(call.in.text)])

\* cleanModText is called on what it returned.
CleanModTextAgain ==
    /\ call.fn = "cleanModText"
    /\ call.done
    /\ ~call.in.cleaned
    /\ Commit([State EXCEPT !.call.in = [text |-> call.out, cleaned |-> TRUE],
                            !.call.out = <<>>, !.call.done = FALSE])

\* A text of the template: every "<n>" of it stands for the number.
RECURSIVE Fill(_, _)
Fill(template, number) ==
    IF template = <<>> THEN <<>>
    ELSE (IF Head(template) = "<n>" THEN number ELSE Spell(Head(template)))
             \o Fill(Tail(template), number)

\* findModId is applied to two texts that differ in their numbers only.
FindModId ==
    /\ call.fn = "findModId"
    /\ ~call.done
    /\ Commit([State EXCEPT
                   !.call.done = TRUE,
                   !.call.out =
                       [first |-> findModIdIn(call.in.mappings,
                                              Fill(call.in.template, call.in.number),
                                              call.in.modType),
                        second |-> findModIdIn(call.in.mappings,
                                               Fill(call.in.template, call.in.other),
                                               call.in.modType)]])

\* The loop body of searchSimilarItems is applied to the stat of the call.
SearchSimilarItemsFilter ==
    /\ call.fn = "searchSimilarItems"
    /\ ~call.done
    /\ Commit([State EXCEPT !.call.done = TRUE,
                            !.call.out = StatFilters(call.in.stat, call.in.modId)])

\* searchSimilarItems builds the payload of its search for the item of the
\* call over the catalog of the call.
BuildSearchPayload ==
    /\ call.fn = "searchPayload"
    /\ ~call.done
    /\ Commit([State EXCEPT !.call.done = TRUE,
                            !.call.out = searchPayload(call.in.mappings, call.in.item)])

(* --------------------------- specification ----------------------------- *)
InitApp ==
    /\ items = <<>>
    /\ accountName = ""
    /\ inputText = ""
    /\ isLoadingItems = FALSE
    /\ isPricingInProgress = FALSE
    /\ isPricingCompleteForCurrentScan = TRUE
    /\ isFetchCompleteForCurrentScan = TRUE
    /\ isLiveSearchEnabled = FALSE
    /\ isErrorPopupOpen = FALSE
    /\ countdownSeconds = 0
    /\ liveSearchIntervalRef = 0
    /\ countdownIntervalRef = FALSE
    /\ intervals = [id \in TimerIds |-> ""]
    /\ countdownTimers = 0
    /\ itemDetailsCache = {}
    /\ initialized = FALSE
    /\ modMappings = "empty"
    /\ tasks = <<>>
    /\ debugPc = [c \in Callers |-> "idle"]
    /\ currencyValues = EmptyRates
    /\ rateFetches = <<DefaultLeague>>
    /\ selectedLeague = DefaultLeague
    /\ ratesLeague = NoLeague
    /\ intervalRates = [id \in TimerIds |-> EmptyRates]
    /\ threshold = DefaultThreshold
    /\ intervalThreshold = [id \in TimerIds |-> 0]
    /\ errorsShown = 0
    /\ events = {}

Init == InitApp /\ call = NoCall

\* The application.  An account has MaxItems listings, so a batch of the
\* scheduler has at most MaxItems items; the wait between two items of a
\* batch belongs to NextPipeline.
Next ==
    \/ TypeAccountName({"acctA"})
    \/ SubmitScan
    \/ ToggleLiveScan
    \/ ScanIntervalFires
    \/ SearchAccountItemsReturns
    \/ FetchWaitElapses
    \/ FetchItemDetailsReturns
    \/ PriceDelayElapses
    \/ CatalogLoadSettles
    \/ SearchSimilarReturns
    \/ PriceDetailsReturns

Spec == Init /\ [][Next]_vars

\* The application within the first interval of a live scan, with either
\* account: manual scans and live scans follow one another, and the batch of
\* acctB has a second item.
NextScan ==
    \/ TypeAccountName(Accounts)
    \/ SubmitScan
    \/ ToggleLiveScan
    \/ SearchAccountItemsReturns
    \/ FetchWaitElapses
    \/ FetchItemDetailsReturns
    \/ PriceDelayElapses
    \/ CatalogLoadSettles
    \/ SearchSimilarReturns
    \/ PriceDetailsReturns
    \/ CooldownElapses

SpecScan == Init /\ [][NextScan]_vars

\* Manual scans of one account while the RateTable is fetched and the
\* league is changed.
NextRates ==
    \/ TypeAccountName({"acctA"})
    \/ SubmitScan
    \/ SearchAccountItemsReturns
    \/ FetchWaitElapses
    \/ FetchItemDetailsReturns
    \/ PriceDelayElapses
    \/ CatalogLoadSettles
    \/ SearchSimilarReturns
    \/ PriceDetailsReturns
    \/ LeagueChange
    \/ FetchCurrencyValuesReturns

SpecRates == Init /\ [][NextRates]_vars

\* Manual scans with the threshold edited at any time the Settings allow.
NextAlert ==
    \/ NextRates
    \/ ThresholdChange

SpecAlert == Init /\ [][NextAlert]_vars

\* convertToExalts alone, on every amount, code and RateTable of the model.
ConvertInputs == [value : 0..MaxAmount, currency : Codes, rates : RateTables \cup {EmptyRates}]

InitCurrency ==
    /\ InitApp
    /\ \E in \in ConvertInputs : call = [fn |-> "convertToExalts", in |-> in, out |-> <<>>, done |-> FALSE]

NextCurrency == ConvertToExalts \/ CallAgain(ConvertInputs)

SpecCurrency == InitCurrency /\ [][NextCurrency]_vars

\* cleanModText alone, on every text of at most MaxTextLen characters of
\* TextAlphabet and on some longer ones.
TextAlphabet == {"[", "]", "|", "(", ")", " ", "a", "1", ".", "+"}
ModTexts ==
    UNION {[1..n -> TextAlphabet] : n \in 0..MaxTextLen}
        \cup {Spell("(local)"), Spell("Adds # to # [Fire|Fire Damage] (Local)"),
              Spell("[Critical|Critical Hit] Chance (LOCAL)"),
              Spell("(Local) [[a]|b] 1.5% +2")}

InitText ==
    /\ InitApp
    /\ \E text \in ModTexts :
           call = [fn |-> "cleanModText", in |-> [text |-> text, cleaned |-> FALSE],
                   out |-> <<>>, done |-> FALSE]

NextText == CleanModText \/ CleanModTextAgain

SpecText == InitText /\ [][NextText]_vars

\* findModId alone, over an initialized catalog.
Mappings ==
    {[id |-> "mod1", text |-> "# to maximum Life", type |-> "explicit"],
     [id |-> "mod2", text |-> "#% increased maximum Life", type |-> "explicit"],
     [id |-> "mod3", text |-> "#% increased maximum Life Mana Spirit", type |-> "explicit"],
     [id |-> "mod4", text |-> "# to maximum Life Mana Spirit", type |-> "explicit"],
     [id |-> "mod5", text |-> "Adds # to # [Fire|Fire Damage] (Local)", type |-> "explicit"],
     [id |-> "mod6", text |-> "# to maximum Life", type |-> "implicit"]}
Catalogs == UNION {[1..n -> Mappings] : n \in 0..MaxCatalog}
Templates ==
    {<<"+", "<n>", " to maximum Life">>,
     <<"<n>", "% increased maximum Life">>,
     <<"to maximum Life Mana Spirit">>,
     <<"+(", "<n>", "-", "<n>", ") to maximum Life Mana Spirit">>,
     <<"+", "<n>", " to maximum Life Mana Spirit">>,
     <<"<n>", "% increased maximum Life Mana Spirit">>,
     <<"Adds ", "<n>", " to ", "<n>", " [Fire|Fire Damage] (Local)">>}
Numerals == {<<"5">>, <<"2", "3">>, <<"1", ".", "5">>}

InitMatch ==
    /\ InitApp
    /\ \E mappings \in Catalogs, template \in Templates, number \in Numerals,
          other \in Numerals, modType \in {"explicit", "implicit"} :
           call = [fn |-> "findModId",
                   in |-> [mappings |-> mappings, template |-> template, number |-> number,
                           other |-> other, modType |-> modType],
                   out |-> <<>>, done |-> FALSE]

NextMatch == FindModId

SpecMatch == InitMatch /\ [][NextMatch]_vars

\* The filters of searchSimilarItems alone.  A stat is a range "adds X to Y"
\* or a single value or has no number; its numbers are at most MaxTenths
\* tenths.
Stats ==
    [isRange : {TRUE}, min : 0..MaxTenths, max : 0..MaxTenths, value : {UndefNum}]
        \cup [isRange : {FALSE}, min : {UndefNum}, max : {UndefNum},
              value : {UndefNum} \cup 0..MaxTenths]

InitBand ==
    /\ InitApp
    /\ \E stat \in Stats, modId \in {NoId, "mod1"} :
           call = [fn |-> "searchSimilarItems", in |-> [stat |-> stat, modId |-> modId],
                   out |-> <<>>, done |-> FALSE]

NextBand == SearchSimilarItemsFilter

SpecBand == InitBand /\ [][NextBand]_vars

\* Searches for items of a few types with at most MaxStats modifiers, over
\* catalogs that hold the local and the global descriptor of a stat in
\* either order, or miss descriptors.
MaxStats == 2
ItemTypes ==
    {"Crossbow", "Recurve Bow", "Two Hand Sword", "Body Armour", "Tower Shield", "Ring",
     "Jewel"}
StatNames ==
    {"+25 to Accuracy Rating", "12% increased Attack Speed", "Adds 5 to 15 Fire Damage",
     "+40 to Armour", "Cannot be Frozen", "+0 to maximum Life"}
QueryStats == [name : StatNames, type : {"explicit"}]
Descriptor(id, text) == [id |-> id, text |-> text, type |-> "explicit"]
LocalFirst ==
    <<Descriptor("accuracy.local", "+# to Accuracy Rating (Local)"),
      Descriptor("accuracy", "+# to Accuracy Rating"),
      Descriptor("speed.local", "#% increased Attack Speed (Local)"),
      Descriptor("speed", "#% increased Attack Speed"),
      Descriptor("fire", "Adds # to # Fire Damage"),
      Descriptor("armour.local", "+# to Armour (Local)"),
      Descriptor("armour", "+# to Armour"),
      Descriptor("life", "# to maximum Life")>>
GlobalFirst ==
    <<Descriptor("accuracy", "+# to Accuracy Rating"),
      Descriptor("accuracy.local", "+# to Accuracy Rating (Local)"),
      Descriptor("speed", "#% increased Attack Speed"),
      Descriptor("speed.local", "#% increased Attack Speed (Local)"),
      Descriptor("armour", "+# to Armour"),
      Descriptor("armour.local", "+# to Armour (Local)"),
      Descriptor("life", "# to maximum Life"),
      Descriptor("fire", "Adds # to # Fire Damage")>>
FireAndLife ==
    <<Descriptor("life", "# to maximum Life"), Descriptor("fire", "Adds # to # Fire Damage")>>
QueryCatalogs == {LocalFirst, GlobalFirst, FireAndLife, <<>>}

InitQuery ==
    /\ InitApp
    /\ \E mappings \in QueryCatalogs, type \in ItemTypes,
          stats \in UNION {[1..n -> QueryStats] : n \in 0..MaxStats} :
           call = [fn |-> "searchPayload",
                   in |-> [mappings |-> mappings, item |-> [type |-> type, stats |-> stats]],
                   out |-> <<>>, done |-> FALSE]

NextQuery == BuildSearchPayload

SpecQuery == InitQuery /\ [][NextQuery]_vars

\* Start requests with any name, blank ones among them, and the live scan
\* they start.
NextStart ==
    \/ TypeAccountName({"acctA", " "})
    \/ ToggleLiveScan
    \/ StartLiveSearchRequest({"", " ", "acctA"})
    \/ SearchAccountItemsReturns
    \/ FetchWaitElapses
    \/ FetchItemDetailsReturns
    \/ PriceDelayElapses
    \/ CatalogLoadSettles
    \/ SearchSimilarReturns
    \/ PriceDetailsReturns

SpecStart == Init /\ [][NextStart]_vars

\* The live scan started, stopped and started again, with room for a second
\* scan-interval timer.
NextTimers ==
    \/ TypeAccountName({"acctA"})
    \/ ToggleLiveScanWithin(TimerSlots)
    \/ SearchAccountItemsReturns
    \/ FetchWaitElapses
    \/ FetchItemDetailsReturns
    \/ PriceDelayElapses
    \/ CatalogLoadSettles
    \/ SearchSimilarReturns
    \/ PriceDetailsReturns

SpecTimers == Init /\ [][NextTimers]_vars

\* One direct pricing batch after the other.
NextPipeline ==
    \/ PriceBatch
    \/ CatalogLoadSettles
    \/ SearchSimilarReturns
    \/ PriceDetailsReturns
    \/ CooldownElapses

SpecPipeline == Init /\ [][NextPipeline]_vars

\* Overlapping calls of ModMappingService.initialize.
NextCatalog ==
    \/ DebugModMapping
    \/ DebugLoadSettles

SpecCatalog == Init /\ [][NextCatalog]_vars

(* ------------------------------ claims --------------------------------- *)
BatchTasks == {t \in Tasks : tasks[t].kind = "batch"}
AllLackValuation(batch) == \A k \in 1..Len(batch) : LacksPricingData(batch[k])
FailureKinds == {"search_failed", "details_failed"}
Fallback(item) ==
    [itemId |-> item.id, estimatedValue |-> 0, currency |-> "chaos",
     confidence |-> ConfidenceFallback]

\* C1: no two pricing batches are in flight at the same time: a cycle does
\* not start handlePriceCheck / getPricingDataIncremental while the batch of
\* a previous cycle or of a manual scan has not finished.
C1_NoTwoPricingBatches ==
    Cardinality({t \in Tasks : PricingInFlight(t)}) <= 1

\* C2: at every instant at most one marketplace request (account search,
\* similar-item search, details fetch) is outstanding.
C2_OneRequestOutstanding ==
    Cardinality({t \in Tasks : RequestOutstanding(t)}) <= 1

\* C3: of overlapping calls of ModMappingService.initialize only the first
\* loads the catalog resource: while one call's load is unresolved, no other
\* call is loading.
C3_CatalogLoadedOnce ==
    Cardinality({c \in Callers : debugPc[c] = "init"})
        + Cardinality({t \in Tasks : tasks[t].pc = "init"}) <= 1

\* C4: over a batch whose N items all lack a valuation the callback is
\* invoked once per item in submission order, N times in all; callback k is
\* delivered before pricing call k+1 starts; the cooldown has elapsed between
\* every two consecutive pricing calls, and none follows the last item.
C4_CallbacksInOrderWithCooldown ==
    \A t \in BatchTasks :
        LET tk == tasks[t]
            N == Len(tk.batch)
        IN  AllLackValuation(tk.batch) =>
                /\ Len(tk.cbs) <= N
                /\ \A k \in 1..Len(tk.cbs) : tk.cbs[k].itemId = tk.batch[k].id
                /\ tk.pc \in {"init", "search", "details"} =>
                       /\ tk.calls = Len(tk.cbs) + 1
                       /\ tk.waits = tk.calls - 1
                /\ tk.pc = "cooldown" =>
                       /\ tk.calls = Len(tk.cbs)
                       /\ tk.waits = tk.calls - 1
                       /\ tk.calls < N
                /\ tk.pc = "done" =>
                       /\ Len(tk.cbs) = N
                       /\ tk.calls = N
                       /\ tk.waits = IF N = 0 THEN 0 ELSE N - 1

\* A batch of MaxBatch unvalued items has been priced to its end.
C4_Witness ==
    \E t \in BatchTasks :
        /\ AllLackValuation(tasks[t].batch)
        /\ Len(tasks[t].batch) = MaxBatch
        /\ tasks[t].pc = "done"
        /\ Len(tasks[t].cbs) = MaxBatch
        /\ tasks[t].waits = MaxBatch - 1

\* C5: the countdown of a scan cycle starts only after the inventory fetch
\* and the pricing batch have completed: never while either is in flight.
C5_CountdownAfterFetchAndPricing ==
    "countdownStarted" \in events =>
        \A t \in Tasks : ~FetchInFlight(t) /\ ~PricingInFlight(t)

\* C6: while the live scan is stopped no scan-interval timer and no
\* countdown timer is pending, whatever the scheduler was doing at the stop.
C6_StopLeavesNoTimer ==
    ~isLiveSearchEnabled => ActiveIntervals = {} /\ countdownTimers = 0

\* C7: when the inventory fetch of a scan cycle fails, the error is surfaced
\* and the live scan is switched off.
C7_CycleFetchFailureDisables ==
    {"fetchFailed", "cycle"} \subseteq events =>
        isErrorPopupOpen /\ ~isLiveSearchEnabled

\* C8: a fatal failure surfaces exactly one error message, and with it no
\* scan-interval timer and no countdown timer stays active.
C8_OneMessageAndTeardown ==
    "fetchFailed" \in events =>
        /\ errorsShown = 1
        /\ ActiveIntervals = {}
        /\ countdownTimers = 0

\* C9: an item of a batch whose search or details call fails gets exactly one
\* callback, with the fallback quote (amount 0, confidence 0.1); the batch
\* goes on to the next item, and ends with one callback per item.
C9_FailedItemGetsFallback ==
    \A t \in BatchTasks :
        LET tk == tasks[t]
            N == Len(tk.itemsToPrice)
        IN  /\ events \cap FailureKinds # {} =>
                   /\ tk.i \in 1..N
                   /\ Len(tk.cbs) = tk.i
                   /\ tk.cbs[tk.i] = Fallback(tk.itemsToPrice[tk.i])
                   /\ tk.pc = IF tk.i < N THEN "cooldown" ELSE "done"
            /\ tk.pc = "done" =>
                   /\ Len(tk.cbs) = N
                   /\ \A k \in 1..N : tk.cbs[k].itemId = tk.itemsToPrice[k].id

\* The search of the second of three items has just failed.
C9_Witness ==
    \E t \in BatchTasks :
        /\ "search_failed" \in events
        /\ Len(tasks[t].itemsToPrice) = 3
        /\ tasks[t].i = 2
        /\ tasks[t].cbs[2] = Fallback(tasks[t].itemsToPrice[2])
        /\ tasks[t].pc = "cooldown"

\* C10: getItemPrice never throws: a step that fails, an empty result and a
\* missing price come to none, a price found comes to a quote.
C10_GetItemPriceNeverThrows ==
    /\ "throw" \notin events
    /\ "priced" \in events => "quote" \in events
    /\ events \cap (FailureKinds \cup {"search_empty", "details_empty", "no_price"}) # {}
           => "none" \in events

\* After a failed load of the catalog, the details fetch of a pricing call
\* has just failed.
C10_Witness ==
    /\ "details_failed" \in events
    /\ "none" \in events
    /\ ~initialized
    /\ \E t \in BatchTasks : tasks[t].calls >= 1

\* C11: cancellation of a pricing batch is checked before each item: once the
\* live scan has been stopped, no later item of the batch of its cycle is
\* started.
C11_NoItemStartedAfterStop ==
    {"nextItemStarted", "cycle"} \subseteq events => isLiveSearchEnabled

\* C12: between two account switches the item-details cache is write-once:
\* no step removes an entry unless it switches the account, and no step
\* writes an id that is in the cache already.
C12_CacheWriteOnce ==
    [][/\ itemDetailsCache \subseteq itemDetailsCache' \/ accountName' # accountName
       /\ "cacheRewritten" \notin events']_vars

\* C13: the working item set never holds items of two different accounts:
\* a fetch for another account than the one before starts from a cleared
\* cache and a cleared working set.
C13_WorkingSetOfOneAccount ==
    \E account \in Accounts :
        /\ ItemIds(items) \subseteq ItemsOf(account)
        /\ \A t \in Tasks :
               FetchInFlight(t) /\ tasks[t].account # account => tasks[t].existing = <<>>
\* C14: the canonical amount stored for every valued item of the working
\* set is convertToExalts(amount, currencyCode) under the current RateTable,
\* also after the RateTable was replaced by a league change or by a rate
\* fetch that completed while a pricing batch was running.
C14_StoredAmountFollowsRateTable ==
    \A k \in 1..Len(items) :
        items[k].estimatedValue # UndefNum /\ items[k].currency # UndefStr =>
            items[k].convertedValue =
                convertToExalts(currencyValues, items[k].estimatedValue,
                                items[k].currency).value

\* C15: the matcher fails open: no call of initialize throws, and a call of
\* findModId made while the catalog is unavailable (no load has completed, or
\* the last load to settle failed) returns no id.
C15_MatcherFailsOpen ==
    /\ "initializeThrew" \notin events
    /\ ~initialized \/ modMappings = "empty" => "modFound" \notin events

\* A caller whose load failed went on to findModId and was given no id.
C15_Witness ==
    {"loadFailed", "modNotFound"} \subseteq events /\ ~initialized

\* The cleaned text has the flat-bonus phrasing: "to" is one of its words.
FlatBonus(text) == Spell("to") \in Range(Split(text))

\* The cleaned text has the percentage phrasing.
Percentage(text) == Includes(text, Spell("increased"))

\* C16: findModId never resolves a flat-bonus text (one containing "to") to
\* a descriptor with percentage phrasing (containing "increased"), nor a
\* percentage text to a flat-bonus descriptor.
C16_NoFlatPercentageCrossMatch ==
    call.fn = "findModId" /\ call.done /\ call.out.first # NoId =>
        LET input == cleanModText(Fill(call.in.template, call.in.number))
            mapping == CHOOSE m \in Range(call.in.mappings) : m.id = call.out.first
            descriptor == cleanModText(Spell(mapping.text))
        IN  /\ ~(FlatBonus(input) /\ Percentage(descriptor))
            /\ ~(Percentage(input) /\ FlatBonus(descriptor))

\* C17: for one catalog and kind, findModId returns the same result for two
\* texts that differ only in the magnitude of their numbers, integers or
\* decimals.
C17_SameIdWhateverTheNumbers ==
    call.fn = "findModId" /\ call.done => call.out.first = call.out.second

\* A text with a decimal and the text with an integer in its place resolve
\* to an id.
C17_Witness ==
    /\ call.fn = "findModId" /\ call.done
    /\ call.in.number = <<"1", ".", "5">> /\ call.in.other = <<"2", "3">>
    /\ call.out.first = "mod1"
    /\ "<n>" \in Range(call.in.template)

\* C18: cleanModText is idempotent: applied to a text it returned, it
\* returns that text again.
C18_CleanModTextIdempotent ==
    call.fn = "cleanModText" /\ call.done /\ call.in.cleaned => call.out = call.in.text

\* C19: the tolerance band of every filter contains the observed value and
\* is not negative: for a single value v > 0 it is [floor(0.8 v), ceil(1.2 v)]
\* with 0 <= min <= v <= max, and for a range with 0 < X <= Y it is
\* [floor(0.8 X), ceil(1.2 Y)] with 0 <= min <= X and Y <= max.  With the
\* numbers in tenths, m = floor(0.8 x) says 100 m <= 8 x < 100 (m + 1) and
\* m = ceil(1.2 x) says 100 (m - 1) < 12 x <= 100 m.
C19_BandContainsValue ==
    call.fn = "searchSimilarItems" /\ call.done =>
        LET stat == call.in.stat
            lowest == IF stat.isRange THEN stat.min ELSE stat.value
            highest == IF stat.isRange THEN stat.max ELSE stat.value
        IN  \A k \in 1..Len(call.out) :
                0 < lowest /\ lowest <= highest =>
                    LET band == call.out[k].value
                    IN  /\ 100 * band.min <= 8 * lowest /\ 8 * lowest < 100 * (band.min + 1)
                        /\ 100 * (band.max - 1) < 12 * highest /\ 12 * highest <= 100 * band.max
                        /\ 0 <= band.min /\ 10 * band.min <= lowest
                        /\ highest <= 10 * band.max

\* A filter was built for the range 0.5 to 1.5 and another for the single
\* value 0.5.
C19_Witness ==
    /\ call.fn = "searchSimilarItems" /\ call.done /\ Len(call.out) = 1
    /\ \/ call.in.stat.isRange /\ call.in.stat.min = 5 /\ call.in.stat.max = 15
       \/ ~call.in.stat.isRange /\ call.in.stat.value = 5

\* C20: convertToExalts returns the amount unchanged exactly for the canonical
\* unit and its aliases: a currency the RateTable prices at a rate other
\* than 1 is not the canonical unit and is never returned unchanged on the
\* alias path, and an alias the code lists is always returned unchanged.
C20_AliasPathOnlyForCanonicalUnit ==
    call.fn = "convertToExalts" /\ call.done =>
        LET lower == trim(toLowerCase(Spell(call.in.currency)))
        IN  /\ lower \in {Spell("exalted"), Spell("exalt"), Spell("exalted orb"), Spell("exalts")}
                => call.out = [value |-> call.in.value, displayText |-> "unchanged"]
            /\ RateOf(call.in.rates, lower) \notin {0, 1}
                => call.out.displayText # "unchanged"

\* The names of the canonical unit: the aliases isExaltCurrency lists and the
\* keys commonExpansions gives for it.
IsCanonicalUnit(currency) ==
    trim(toLowerCase(Spell(currency)))
        \in {Spell("exalted"), Spell("exalt"), Spell("exalted orb"), Spell("exalts"),
             Spell("exalted-orb"), Spell("orb-exalted")}

\* C21: with an empty RateTable, convertToExalts returns the canonical
\* amount 0 for every amount and every currency that is not the canonical
\* unit, and does not raise.
C21_EmptyRateTableGivesZero ==
    /\ call.fn = "convertToExalts" /\ call.done
    /\ call.in.rates = EmptyRates
    /\ ~IsCanonicalUnit(call.in.currency)
    => call.out.value = 0

\* C22: a code whose own key of the RateTable has rate 0 is given the
\* canonical amount 0 whatever other keys the table holds, and so is a code
\* no key is resolved for.
C22_ZeroRateGivesZero ==
    /\ call.fn = "convertToExalts" /\ call.done
    /\ ~IsCanonicalUnit(call.in.currency)
    /\ call.out.displayText # "unchanged"
    =>
        LET lower == trim(toLowerCase(Spell(call.in.currency)))
            own == {k \in DOMAIN call.in.rates : Spell(k) = lower}
        IN  /\ (\E k \in own : call.in.rates[k] = 0) => call.out.value = 0
            /\ findClosestCurrencyMatch(call.in.rates, call.in.currency) = "" /\ own = {}
                   => call.out.value = 0

\* The keys the third step of the resolution ranks first: they contain the
\* code or are contained in it; one that starts with the code goes before
\* one that does not, and then the shorter goes first.
BestPartialKeys(rates, lower) ==
    LET partial == {k \in DOMAIN rates :
                       Includes(Spell(k), lower) \/ Includes(lower, Spell(k))}
        starting == {k \in partial : StartsWith(Spell(k), lower)}
        preferred == IF starting # {} THEN starting ELSE partial
    IN  {k \in preferred : \A o \in preferred : Len(Spell(k)) <= Len(Spell(o))}

\* The keys the priority order of the claim resolves the code to: the exact
\* lower-cased key if present, else the first expansion that is a key, else
\* the best partial keys.
ResolvedKeys(rates, lower) ==
    LET exact == {k \in DOMAIN rates : Spell(k) = lower}
        expansions == SelectSeq(commonExpansions(lower), LAMBDA e : e \in DOMAIN rates)
    IN  IF exact # {} THEN exact
        ELSE IF expansions # <<>> THEN {expansions[1]}
        ELSE BestPartialKeys(rates, lower)

\* C23: for a code that is not the canonical unit the rate key is resolved
\* in strict priority order (exact lower-cased key, first expansion that is a
\* key, best partial key) and the canonical amount is the amount times the
\* rate of that key.
C23_ResolutionPriority ==
    /\ call.fn = "convertToExalts" /\ call.done
    /\ ~IsCanonicalUnit(call.in.currency)
    /\ call.out.displayText # "unchanged"
    => LET keys == ResolvedKeys(call.in.rates, trim(toLowerCase(Spell(call.in.currency))))
       IN  IF keys = {} THEN call.out.value = 0
           ELSE \E k \in keys : call.out.value = call.in.value * call.in.rates[k]

\* The item carries a valuation: both estimatedValue and currency are set.
CarriesValuation(item) == item.estimatedValue # UndefNum /\ item.currency # UndefStr

\* C24: getPricingDataIncremental issues no pricing call and invokes no
\* callback for an item of the batch that carries a valuation already; it
\* prices exactly the items that lack one, in their order.
C24_ValuedItemsAreSkipped ==
    \A t \in BatchTasks :
        LET tk == tasks[t]
            lacking == SelectSeq(tk.batch, LAMBDA item : ~CarriesValuation(item))
        IN  /\ tk.calls <= Len(lacking)
            /\ Len(tk.cbs) <= tk.calls
            /\ \A k \in 1..Len(tk.cbs) : tk.cbs[k].itemId = lacking[k].id
            /\ tk.pc = "done" => tk.calls = Len(lacking) /\ Len(tk.cbs) = Len(lacking)

\* A batch of three whose second item carries a valuation is over: two
\* pricing calls and two callbacks.
C24_Witness ==
    \E t \in BatchTasks :
        /\ Len(tasks[t].batch) = 3
        /\ CarriesValuation(tasks[t].batch[2])
        /\ ~CarriesValuation(tasks[t].batch[1]) /\ ~CarriesValuation(tasks[t].batch[3])
        /\ tasks[t].pc = "done"
        /\ tasks[t].calls = 2
        /\ Len(tasks[t].cbs) = 2

\* C25: a request to start the live scan with an empty or whitespace-only
\* account name leaves the scheduler as it was: the live scan stays off, no
\* fetch is issued and no timer is installed.
C25_BlankNameStartsNothing ==
    [][{"startRequested", "blankName"} \subseteq events' =>
           /\ ~isLiveSearchEnabled'
           /\ tasks' = tasks
           /\ intervals' = intervals
           /\ liveSearchIntervalRef' = liveSearchIntervalRef
           /\ countdownTimers' = countdownTimers
           /\ isLoadingItems' = isLoadingItems]_vars

\* A start was requested with a blank name while nothing was running.
C25_Witness ==
    /\ {"startRequested", "blankName"} \subseteq events
    /\ tasks = <<>>
    /\ ~isLiveSearchEnabled
    /\ ActiveIntervals = {}

\* The modifiers of the item of the call that have a range or a value above
\* zero and that the matcher resolves, in the order of the item, and the id
\* the matcher gives each.
QueryModText(item, i) ==
    IF shouldModBeLocal(Spell(item.stats[i].name), Spell(item.type))
    THEN Spell(item.stats[i].name) \o Spell(" (local)")
    ELSE Spell(item.stats[i].name)
QueryModId(mappings, item, i) ==
    findModIdIn(mappings, QueryModText(item, i), item.stats[i].type)
HasRangeOrValue(name) ==
    extractModRange(Spell(name)).found \/ extractModValue(Spell(name)) > 0
RECURSIVE UpTo(_)
UpTo(n) == IF n = 0 THEN <<>> ELSE Append(UpTo(n - 1), n)
QueryKept(mappings, item) ==
    LET Keeps(i) == /\ HasRangeOrValue(item.stats[i].name)
                    /\ QueryModId(mappings, item, i) # NoId
    IN  SelectSeq(UpTo(Len(item.stats)), Keeps)

\* C26: the query holds, in the order of the modifiers, exactly one filter for
\* each modifier that has a range or a value above zero and that the matcher
\* resolves, and no other filter; an unresolved modifier stops nothing and
\* no cap cuts the list.
C26_OneFilterPerResolvedModifier ==
    call.fn = "searchPayload" /\ call.done
    => LET kept == QueryKept(call.in.mappings, call.in.item)
       IN  /\ Len(call.out.stats) = Len(kept)
           /\ \A j \in 1..Len(kept) :
                  call.out.stats[j].id = QueryModId(call.in.mappings, call.in.item, kept[j])

\* An unresolved modifier with a value is followed by a resolved one, whose
\* filter is in the query.
C26_Witness ==
    /\ call.fn = "searchPayload" /\ call.done
    /\ Len(call.in.item.stats) = 2
    /\ call.in.item.stats[1].name = "+40 to Armour"
    /\ QueryModId(call.in.mappings, call.in.item, 1) = NoId
    /\ call.in.item.stats[2].name = "Adds 5 to 15 Fire Damage"
    /\ Len(call.out.stats) = 1 /\ call.out.stats[1].id = "fire"

\* The stats of the catalogs with a local and a global descriptor.
LocalAndGlobal ==
    ("+25 to Accuracy Rating" :> [local |-> "accuracy.local", global |-> "accuracy"])
    @@ ("12% increased Attack Speed" :> [local |-> "speed.local", global |-> "speed"])
    @@ ("+40 to Armour" :> [local |-> "armour.local", global |-> "armour"])

\* C27: over a catalog with the local and the global descriptor of a stat, a
\* modifier shouldModBeLocal classifies as local resolves to the id of the
\* local descriptor and one it classifies as global to the id of the global
\* descriptor, never both to one id.
C27_LocalAndGlobalResolveApart ==
    call.fn = "searchPayload" /\ call.done /\ call.in.mappings \in {LocalFirst, GlobalFirst}
    => LET item == call.in.item
           kept == QueryKept(call.in.mappings, item)
       IN  \A j \in 1..Len(call.out.stats) :
               LET name == item.stats[kept[j]].name
               IN  name \in DOMAIN LocalAndGlobal
                   => call.out.stats[j].id =
                          IF shouldModBeLocal(Spell(name), Spell(item.type))
                          THEN LocalAndGlobal[name].local
                          ELSE LocalAndGlobal[name].global

\* One accuracy modifier on a crossbow, with the global descriptor first in
\* the catalog: the filter has the id of the local descriptor.
C27_Witness ==
    /\ call.fn = "searchPayload" /\ call.done
    /\ call.in.mappings = GlobalFirst
    /\ call.in.item.type = "Crossbow"
    /\ Len(call.in.item.stats) = 1
    /\ call.in.item.stats[1].name = "+25 to Accuracy Rating"
    /\ Len(call.out.stats) = 1 /\ call.out.stats[1].id = "accuracy.local"

\* The keywords of getItemCategory in the order of their tests, each with
\* its category.
CategoryTable ==
    <<[keywords |-> {"wand"}, category |-> "weapon.wand"],
     [keywords |-> {"crossbow"}, category |-> "weapon.crossbow"],
     [keywords |-> {"bow"}, category |-> "weapon.bow"],
     [keywords |-> {"quarterstaff"}, category |-> "weapon.warstaff"],
     [keywords |-> {"staff"}, category |-> "weapon.warstaff"],
     [keywords |-> {"sword", "two"}, category |-> "weapon.twosword"],
     [keywords |-> {"sword"}, category |-> "weapon.onesword"],
     [keywords |-> {"axe", "two"}, category |-> "weapon.twoaxe"],
     [keywords |-> {"axe"}, category |-> "weapon.oneaxe"],
     [keywords |-> {"mace", "two"}, category |-> "weapon.twomace"],
     [keywords |-> {"mace"}, category |-> "weapon.onemace"],
     [keywords |-> {"dagger"}, category |-> "weapon.dagger"],
     [keywords |-> {"claw"}, category |-> "weapon.claw"],
     [keywords |-> {"spear"}, category |-> "weapon.spear"],
     [keywords |-> {"flail"}, category |-> "weapon.flail"],
     [keywords |-> {"sceptre"}, category |-> "weapon.sceptre"],
     [keywords |-> {"helmet"}, category |-> "armour.helmet"],
     [keywords |-> {"chest"}, category |-> "armour.chest"],
     [keywords |-> {"body"}, category |-> "armour.chest"],
     [keywords |-> {"gloves"}, category |-> "armour.gloves"],
     [keywords |-> {"boots"}, category |-> "armour.boots"],
     [keywords |-> {"shield"}, category |-> "armour.shield"],
     [keywords |-> {"quiver"}, category |-> "armour.quiver"],
     [keywords |-> {"focus"}, category |-> "armour.focus"],
     [keywords |-> {"buckler"}, category |-> "armour.buckler"],
     [keywords |-> {"amulet"}, category |-> "accessory.amulet"],
     [keywords |-> {"ring"}, category |-> "accessory.ring"],
     [keywords |-> {"belt"}, category |-> "accessory.belt"]>>

\* C28: the category of the query is the one of the first row of the keyword
\* table whose keywords the item type holds, 'crossbow' being tested before
\* 'bow'; a type with no keyword has no category and its query no category
\* filter.
C28_FirstKeywordDecidesCategory ==
    call.fn = "searchPayload" /\ call.done
    => LET type == toLowerCase(Spell(call.in.item.type))
           hits == {k \in 1..Len(CategoryTable) :
                       \A word \in CategoryTable[k].keywords : Includes(type, Spell(word))}
       IN  /\ call.out.filters = IF hits = {} THEN <<>>
                                  ELSE <<CategoryTable[Min(hits)].category>>
           /\ Includes(type, Spell("crossbow")) => call.out.filters = <<"weapon.crossbow">>

\* The query of a crossbow, whose type holds 'bow' too.
C28_Witness ==
    /\ call.fn = "searchPayload" /\ call.done
    /\ call.in.item.type = "Crossbow"
    /\ call.out.filters = <<"weapon.crossbow">>

\* C29: when the pricing callback delivers a priced item, the notification
\* is played if and only if the canonical amount of the item is at least
\* the configured threshold.
C29_AlertIffAtOrAboveThreshold ==
    [][\A t \in Tasks :
           /\ Len(tasks) = 1
           /\ tasks[t].pc \in {"search", "details"}
           /\ events' \cap {"quote", "none"} # {}
           => \A k \in 1..Len(items') :
                  items'[k].id = tasks[t].itemsToPrice[tasks[t].i].id
                  => ("alert" \in events' <=> items'[k].convertedValue >= threshold')]_vars

\* C30: at most one scan-interval timer is set at any time, and the one that
\* is set is the one liveSearchIntervalRef holds, whatever starts, stops and
\* restarts were requested, also during the first scan cycle a start awaits.
C30_OneReferencedScanTimer ==
    /\ Cardinality(ActiveIntervals) <= 1
    /\ ActiveIntervals \subseteq {liveSearchIntervalRef}

\* C31: an item of the working set that carries a valuation keeps it in every
\* later state, until the account is switched: no fetch puts back the copy
\* of the item it took before the pricing callback ran.
C31_ValuationIsKept ==
    [][accountName = "" \/ accountName' = accountName
       => \A k \in 1..Len(items) :
              CarriesValuation(items[k])
              => \A j \in 1..Len(items') :
                     items'[j].id = items[k].id
                     => /\ items'[j].estimatedValue = items[k].estimatedValue
                        /\ items'[j].currency = items[k].currency]_vars

\* C32: the flags the UI gates on are truthful: isPricingInProgress is TRUE
\* while a pricing batch is in flight and isLoadingItems is TRUE while an
\* inventory fetch is in flight, also after an error popup and when one of
\* two overlapping batches is over.
C32_FlagsAreTruthful ==
    /\ (\E t \in Tasks : PricingInFlight(t)) => isPricingInProgress
    /\ (\E t \in Tasks : FetchInFlight(t)) => isLoadingItems

\* C33: no manual scan and no live scan is started while an inventory fetch
\* or a pricing batch is in flight: a start asked for in such a state issues
\* no request and sets no timer.
C33_NoStartWhileInFlight ==
    [][/\ Len(tasks') = Len(tasks) + 1
       /\ tasks'[Len(tasks')].kind = "manual" \/ tasks'[Len(tasks')].initial
       => \A t \in Tasks : ~FetchInFlight(t) /\ ~PricingInFlight(t)]_vars

\* League changes that overlap: a league is selected while the answer for
\* an earlier selection is awaited.
NextLeague ==
    \/ LeagueChangeWithin(Leagues, MaxRateFetches + 1)
    \/ FetchCurrencyValuesReturns
    \/ TypeAccountName({"acctA"})

SpecLeague == Init /\ [][NextLeague]_vars

\* C34: once no rate fetch is in flight, the RateTable holds the rates of
\* the league selected last, or is empty after a failed fetch; it never
\* holds the rates a slower answer brought for an earlier selection.
C34_TableOfSelectedLeague ==
    rateFetches = <<>> => currencyValues = EmptyRates \/ ratesLeague = selectedLeague

(* ------------------- fetchStashedItems as a function ------------------- *)
\* Poe2TradeApi.fetchStashedItems with its search returning no id, where
\* the existing items are handed back.
fetchedList_KeepsExistingOnEmpty(existingItems, cachedItemIds, result) ==
    allStashedItems(existingItems, cachedItemIds, result)
        \o MapSeq(convertApiItemToStashedItem,
                  itemsToFetch(existingItems, cachedItemIds, result))

\* Poe2TradeApi.fetchStashedItems, its requests answered: the list it
\* resolves to for the ids result of searchAccountItems.
fetchedList(existingItems, cachedItemIds, result) ==
    IF result = <<>> THEN <<>>
    ELSE allStashedItems(existingItems, cachedItemIds, result)
             \o MapSeq(convertApiItemToStashedItem,
                       itemsToFetch(existingItems, cachedItemIds, result))

\* fetchStashedItems is applied to the arguments of the call.
FetchStashedItems ==
    /\ call.fn = "fetchStashedItems"
    /\ ~call.done
    /\ Commit([State EXCEPT
                   !.call.done = TRUE,
                   !.call.out = fetchedList(call.in.existingItems, call.in.cachedItemIds,
                                            call.in.result)])

\* The lists of at most MaxListed different ids, and an item that was priced.
MaxListed == 2
FetchIds == 1..(MaxListed + 1)
IdLists ==
    {l \in UNION {[1..n -> FetchIds] : n \in 0..MaxListed} :
        \A j, k \in 1..Len(l) : l[j] = l[k] => j = k}
PricedItem(id) ==
    [convertApiItemToStashedItem(id) EXCEPT !.estimatedValue = id, !.currency = "chaos",
                                            !.convertedValue = 2 * id]

\* fetchStashedItems alone: the existing items are priced items of different
\* ids, the cache and the search result are any.
InitFetch ==
    /\ InitApp
    /\ \E existing \in IdLists, cachedItemIds \in SUBSET FetchIds, result \in IdLists :
           call = [fn |-> "fetchStashedItems",
                   in |-> [existingItems |-> MapSeq(PricedItem, existing),
                           cachedItemIds |-> cachedItemIds, result |-> result],
                   out |-> <<>>, done |-> FALSE]

NextFetch == FetchStashedItems

SpecFetch == InitFetch /\ [][NextFetch]_vars

NoDuplicateIds(list) == \A j, k \in 1..Len(list) : list[j].id = list[k].id => j = k

\* C35: the list fetchStashedItems returns holds no id twice, when the
\* existing items and the search result hold none twice; each of its items
\* is an existing item, the cached item of a listed id, or the newly fetched
\* item of a listed id that was neither existing nor cached.
C35_ReturnedIdsAreDistinct ==
    call.fn = "fetchStashedItems" /\ call.done
    => /\ NoDuplicateIds(call.out)
       /\ \A k \in 1..Len(call.out) :
              \/ call.out[k] \in Range(call.in.existingItems)
              \/ /\ call.out[k] = convertApiItemToStashedItem(call.out[k].id)
                 /\ call.out[k].id \in Range(call.in.result)

\* An existing item that is cached and listed comes back once, next to an
\* existing item that is not listed and an item that is not existing.
C35_Witness ==
    /\ call.fn = "fetchStashedItems" /\ call.done
    /\ Len(call.out) = 3
    /\ \E id \in ItemIds(call.in.existingItems) :
           id \in call.in.cachedItemIds /\ id \in Range(call.in.result)
    /\ \E id \in ItemIds(call.in.existingItems) : id \notin Range(call.in.result)
    /\ \E id \in Range(call.in.result) : id \notin ItemIds(call.in.existingItems)

OnItemPriced ==
    /\ call.fn = "onItemPriced"
    /\ ~call.done
    /\ Commit([State EXCEPT
                   !.call.done = TRUE,
                   !.call.out = PricedCallback(call.in.rates, call.in.list,
                                               call.in.pricing)])

\* What an item of the working set can look like: fresh, queued or priced.
ItemStates(id) ==
    {convertApiItemToStashedItem(id),
     [convertApiItemToStashedItem(id) EXCEPT !.isQueuedForPricing = TRUE],
     PricedItem(id)}

\* The working sets of at most MaxListed items, sorted as setItems leaves
\* them.
WorkingSets ==
    {sortItemsByValue(l) :
        l \in {m \in UNION {[1..n -> UNION {ItemStates(id) : id \in FetchIds}] :
                                n \in 0..MaxListed} :
                  NoDuplicateIds(m)}}

Pricings ==
    [itemId : FetchIds, estimatedValue : {0, MaxAmount}, currency : {"chaos", "exalted"},
     confidence : {ConfidenceFound}]

\* The callback alone, for an id of the working set or another.
InitCallback ==
    /\ InitApp
    /\ \E list \in WorkingSets, pricing \in Pricings,
          rates \in {EmptyRates, ("chaos" :> 0) @@ ("chaos-orb" :> 2)} :
           call = [fn |-> "onItemPriced",
                   in |-> [list |-> list, pricing |-> pricing, rates |-> rates],
                   out |-> <<>>, done |-> FALSE]

NextCallback == OnItemPriced

SpecCallback == InitCallback /\ [][NextCallback]_vars

\* C37: the pricing callback for id i leaves the ids of the working set and
\* every other item as they were, and changes the valuation fields of the
\* item with id i only; for an id that is not in the working set it changes
\* nothing.
C37_CallbackChangesOnlyItsItem ==
    call.fn = "onItemPriced" /\ call.done
    => /\ Len(call.out) = Len(call.in.list)
       /\ ItemIds(call.out) = ItemIds(call.in.list)
       /\ \A k \in 1..Len(call.in.list) :
              call.in.list[k].id # call.in.pricing.itemId
              => call.in.list[k] \in Range(call.out)
       /\ call.in.pricing.itemId \notin ItemIds(call.in.list) => call.out = call.in.list

\* A queued item gets its valuation while another queued item waits.
C37_Witness ==
    /\ call.fn = "onItemPriced" /\ call.done
    /\ \E j, k \in 1..Len(call.in.list) :
           /\ call.in.list[j].id = call.in.pricing.itemId
           /\ call.in.list[j].isQueuedForPricing
           /\ call.in.list[k].id # call.in.pricing.itemId
           /\ call.in.list[k].isQueuedForPricing
    /\ \E k \in 1..Len(call.out) :
           /\ call.out[k].id = call.in.pricing.itemId
           /\ call.out[k].estimatedValue = call.in.pricing.estimatedValue
           /\ ~call.out[k].isQueuedForPricing

\* The fallback quote of getPricingDataIncremental on an item.
HasFallbackQuote(item) == item.estimatedValue = 0 /\ item.currency = "chaos"

\* C38: an item of the working set that carries the fallback quote is valued:
\* no fetch of a later scan hands it to handlePriceCheck again (every scan of
\* Spec is of one account).
C38_FailedItemIsNotRetried ==
    [][\A k \in 1..Len(items) :
           HasFallbackQuote(items[k])
           => \A t \in 1..Len(tasks) :
                  /\ t <= Len(tasks')
                  /\ FetchInFlight(t)
                  /\ tasks'[t].pc = "price_delay"
                  => items[k].id \notin ItemIds(tasks'[t].batch)]_vars

\* The live scan with its countdown: the countdown timer fires, the
\* scan-interval timer fires when no scan is in flight, and the live scan is
\* stopped and started again.
NextCountdown ==
    \/ TypeAccountName({"acctA"})
    \/ ToggleLiveScanWithin(TimerSlots)
    \/ ScanIntervalFiresWithin(1)
    \/ CountdownTick
    \/ SearchAccountItemsReturns
    \/ FetchWaitElapses
    \/ FetchItemDetailsReturns
    \/ PriceDelayElapses
    \/ CatalogLoadSettles
    \/ SearchSimilarReturns
    \/ PriceDetailsReturns

SpecCountdown == Init /\ [][NextCountdown]_vars

NearMappings ==
    {[id |-> "mod3", text |-> "#% increased maximum Life Mana Spirit", type |-> "explicit"],
     [id |-> "mod7", text |-> "#% increased maximum Life Mana", type |-> "explicit"],
     [id |-> "mod8", text |-> "#% increased maximum Life Mana Spirit", type |-> "implicit"],
     [id |-> "mod1", text |-> "# to maximum Life", type |-> "explicit"]}
NearTemplates ==
    {<<"<n>", "% increased maximum Life Mana Spirit">>,
     <<"<n>", "% increased maximum Life Mana">>,
     <<"+", "<n>", " to maximum Life">>}

InitExact ==
    /\ InitApp
    /\ \E mappings \in UNION {[1..n -> NearMappings] : n \in 0..MaxCatalog},
          template \in NearTemplates, number \in Numerals,
          modType \in {"explicit", "implicit"} :
           call = [fn |-> "findModId",
                   in |-> [mappings |-> mappings, template |-> template, number |-> number,
                           other |-> <<"5">>, modType |-> modType],
                   out |-> <<>>, done |-> FALSE]

NextExact == FindModId

SpecExact == InitExact /\ [][NextExact]_vars

\* The entries of the catalog of the call that have the kind asked for and
\* clean to the cleaned text of the call.
ExactEntries ==
    {k \in 1..Len(call.in.mappings) :
        /\ call.in.mappings[k].type = call.in.modType
        /\ cleanModText(Spell(call.in.mappings[k].text))
               = cleanModText(Fill(call.in.template, call.in.number))}

\* C40: the id findModId returns is the id of an entry of the kind asked
\* for, and when entries of that kind clean to exactly the cleaned input the
\* id of the first of them is returned, whatever entry before it matches
\* partially.
C40_SameKindAndExactFirst ==
    call.fn = "findModId" /\ call.done
    => /\ call.out.first # NoId
          => \E k \in 1..Len(call.in.mappings) :
                 /\ call.in.mappings[k].id = call.out.first
                 /\ call.in.mappings[k].type = call.in.modType
       /\ \A m \in Range(call.in.mappings) :
              m.id = call.out.first => m.type = call.in.modType
       /\ ExactEntries # {} => call.out.first = call.in.mappings[Min(ExactEntries)].id

\* The second entry is the exact match and is returned, though the first
\* entry has the kind asked for and matches partially.
C40_Witness ==
    /\ call.fn = "findModId" /\ call.done
    /\ Len(call.in.mappings) = 2
    /\ ExactEntries = {2}
    /\ call.in.mappings[1].type = call.in.modType
    /\ isModTextMatch(cleanModText(Fill(call.in.template, call.in.number)),
                      cleanModText(Spell(call.in.mappings[1].text)))
    /\ call.out.first = call.in.mappings[2].id
    /\ call.in.mappings[1].id # call.in.mappings[2].id

====
